---- MODULE Spec2Model ----
(***************************************************************************)
(* Model of the request engine of the Notifica Node SDK                     *)
(* (src/src/client.ts, src/src/errors.ts).                                  *)
(*                                                                          *)
(* Nullable JavaScript values (null / undefined) are modelled as sets of    *)
(* at most one element: {} is null/undefined and {v} is the value v.        *)
(***************************************************************************)
EXTENDS Integers, Sequences, FiniteSets, TLC

\* ---------------------------------------------------------------- bounds
\* Number of request() calls the caller issues, one after the other: where the
\* retry loop is explored in full (EngineCalls) and where the headers are (MaxCalls).
EngineCalls == 1
MaxCalls == 2
\* Largest explicit value of config.maxRetries the constructor is given.
MaxRetriesCfg == 1
\* Math.random() is drawn from {0/RandDen, ..., (RandDen-1)/RandDen}.
RandDen == 2

\* ------------------------------------------------------ program constants
DEFAULT_TIMEOUT == 30000
DEFAULT_MAX_RETRIES == 3
RETRYABLE_STATUS_CODES_every4xx5xx ==
  {400, 401, 403, 404, 422, 429, 500, 502, 503, 504}

RETRYABLE_STATUS_CODES == {429, 500, 502, 503, 504}

\* ------------------------------------------------------------ JS helpers
\* x ?? d
Coalesce(x, d) == IF x = {} THEN d ELSE CHOOSE v \in x : TRUE
\* the value held by a non-null x
Val(x) == CHOOSE v \in x : TRUE
\* JavaScript truthiness of an optional string
Truthy(x) == x # {} /\ Val(x) # ""

\* ----------------------------------------------------------- errors.ts
\* Every error object is a record; name is the class, at is the index of the
\* loop iteration of request() that constructed the object (its identity).
NotificaError(message, at) ==
  [name |-> "NotificaError", message |-> message, status |-> {}, code |-> {},
   details |-> {}, requestId |-> {}, retryAfter |-> {}, at |-> at]

ApiError(message, status, code, details, requestId, at) ==
  [name |-> "ApiError", message |-> message, status |-> {status}, code |-> {code},
   details |-> {details}, requestId |-> requestId, retryAfter |-> {}, at |-> at]

ValidationError_dropsRequestId(message, details, requestId, at) ==
  [ApiError(message, 422, "validation_failed", details, {}, at)
     EXCEPT !.name = "ValidationError"]

ValidationError(message, details, requestId, at) ==
  [ApiError(message, 422, "validation_failed", details, requestId, at)
     EXCEPT !.name = "ValidationError"]

RateLimitError(message, retryAfter, requestId, at) ==
  [ApiError(message, 429, "rate_limit_exceeded", "{}", requestId, at)
     EXCEPT !.name = "RateLimitError", !.retryAfter = retryAfter]

TimeoutError(timeoutMs, at) ==
  [NotificaError("Request timed out after " \o ToString(timeoutMs) \o "ms", at)
     EXCEPT !.name = "TimeoutError"]

\* An error thrown by fetch() or response.json() that is not an SDK error
\* (TypeError "fetch failed", SyntaxError of a malformed body).
NativeError(name, message, at) ==
  [NotificaError(message, at) EXCEPT !.name = name]

\* error instanceof NotificaError
IsNotificaError(e) ==
  e.name \in {"NotificaError", "ApiError", "ValidationError", "RateLimitError",
              "TimeoutError"}

\* ------------------------------------------------- the server's answers
ErrorStatuses == {400, 401, 403, 404, 422, 429, 500, 502, 503, 504}
OkStatuses == {200, 201, 204}

\* response.ok
Ok(status) == status >= 200 /\ status <= 299

\* The error member of an error envelope { error: { code, message, details } }.
ErrorMembers ==
  { [code |-> {}, message |-> {"custom message"}, details |-> {}],
    [code |-> {"custom_code"}, message |-> {"custom message"},
     details |-> {"{email:[is invalid]}"}] }

\* What response.json() yields: {} when the body is absent or is not JSON,
\* else the parsed value.
EngineBodies == { {} } \cup { {[data |-> {}, error |-> {m}]} : m \in ErrorMembers }
OkBodies == { {}, {[data |-> {"payload"}, error |-> {}]} }

\* The Retry-After header: absent, a number of seconds, an HTTP date (held as
\* its distance in ms from Date.now()), or text that is neither.
RetryAfterHeaders ==
  { [form |-> "absent", n |-> 0], [form |-> "number", n |-> 0],
    [form |-> "number", n |-> 2], [form |-> "date", n |-> 1500],
    [form |-> "junk", n |-> 0] }
NoRetryAfter == [form |-> "absent", n |-> 0]

RequestIds == { {}, {"req-1"} }

\* The answers the retry loop is explored with.  Retry-After is read on a 429
\* only and x-request-id on a non-2xx only, so they vary only there.
Responses ==
  [status : ErrorStatuses \ {429}, requestId : RequestIds,
   retryAfter : {NoRetryAfter}, body : EngineBodies]
    \cup [status : {429}, requestId : RequestIds,
          retryAfter : RetryAfterHeaders, body : EngineBodies]
    \cup [status : OkStatuses, requestId : { {} },
          retryAfter : {NoRetryAfter}, body : OkBodies]

\* The answers the header construction is explored with.
HeaderResponses ==
  [status : {201, 503}, requestId : { {} }, retryAfter : {NoRetryAfter},
   body : { {[data |-> {"payload"}, error |-> {}]} }]

NoResponse == [status |-> 0, requestId |-> {}, retryAfter |-> NoRetryAfter, body |-> {}]

\* Math.ceil(n / d) for d > 0
CeilDiv(n, d) == IF n >= 0 THEN (n + d - 1) \div d ELSE 0 - ((0 - n) \div d)
Max(a, b) == IF a >= b THEN a ELSE b

\* client.ts parseRetryAfter
parseRetryAfter(response) ==
  LET header == response.retryAfter IN
  IF header.form = "absent" THEN {}
  ELSE IF header.form = "number" THEN {header.n}
  ELSE IF header.form = "date" THEN {Max(0, CeilDiv(header.n, 1000))}
  ELSE {}

\* errorBody?.error?.<field>
ErrorField(errorBody, field) ==
  IF errorBody = {} THEN {}
  ELSE IF Val(errorBody).error = {} THEN {}
  ELSE Val(Val(errorBody).error)[field]

\* ------------------------------------------------------------- the state
VARIABLES
  client,    \* the fields the constructor stored (read-only afterwards)
  call,      \* call[c]: the locals of the request() invocation in slot c
  calls,     \* number of request() invocations started so far
  nextUuid,  \* number of tokens crypto.randomUUID() has handed out
  callKeys,  \* the generated Idempotency-Key of every POST that got one
  pager,     \* the locals of one paginate() generator and what it has done
  hook,      \* the latest webhooks.verify() call and what it did
  cmp        \* the latest timingSafeEqual() call and what it did

vars == <<client, call, calls, nextUuid, callKeys, pager, hook, cmp>>

\* The caller's invocations run in these slots (one after the other in a slot).
Slots == {1}
\* The slots of invocations that are in flight at the same time.
ConcurrentSlots == {1, 2}

Methods == {"GET", "POST", "PUT", "PATCH", "DELETE"}

\* RequestOptions: idempotencyKey?: string, timeout?: number, signal?: AbortSignal.
\* The signal is absent ("none"), not yet aborted ("live") or aborted.
RequestOptions ==
  [idempotencyKey : { {}, {""}, {"my-custom-key"} },
   timeout : { {}, {5000} },
   signal : {"none", "live", "aborted"}]

\* The calls the retry loop is explored with.
EngineMethods == {"POST"}
EngineOptions ==
  [idempotencyKey : { {} }, timeout : { {}, {5000} },
   signal : {"none", "live", "aborted"}]

\* The calls the header construction is explored with.
HeaderOptions ==
  [idempotencyKey : { {}, {""}, {"my-custom-key"} }, timeout : { {} },
   signal : {"none"}]

\* A base URL is held as the text before its trailing slashes and the number
\* of trailing slashes: origin never ends in "/".
DEFAULT_BASE_URL == [origin |-> "https://app.usenotifica.com.br/v1", slashes |-> 0]

\* config.baseUrl: absent, or a URL of the caller's with or without trailing
\* slashes.
BaseUrls ==
  { {} } \cup { {[origin |-> "http://localhost:4000/v1", slashes |-> n]} : n \in {0, 1, 3} }

\* NotificaClientConfig without apiKey.
Configs ==
  [baseUrl : BaseUrls,
   timeout : { {}, {15000} },
   maxRetries : { {} } \cup { {n} : n \in 0..MaxRetriesCfg },
   autoIdempotency : { {}, {TRUE}, {FALSE} }]
EngineConfigs == {config \in Configs : config.baseUrl = {} /\ config.autoIdempotency = {}}
HeaderConfigs ==
  {config \in Configs : config.baseUrl = {} /\ config.timeout = {} /\ config.maxRetries = {1}}
\* The configs the URL construction is explored with.
UrlConfigs ==
  {config \in Configs : config.timeout = {} /\ config.maxRetries = {1}
                          /\ config.autoIdempotency = {}}

\* url.replace(/\/+$/, '')
stripTrailingSlashes(url) == [url EXCEPT !.slashes = 0]

\* client.ts constructor (lines 41-45); config is kept as a record of what the
\* client was constructed with, not read by the code afterwards.
Constructor(config) ==
  [config |-> config,
   baseUrl |-> stripTrailingSlashes(Coalesce(config.baseUrl, DEFAULT_BASE_URL)),
   timeout |-> Coalesce(config.timeout, DEFAULT_TIMEOUT),
   maxRetries |-> Coalesce(config.maxRetries, DEFAULT_MAX_RETRIES),
   autoIdempotency |-> Coalesce(config.autoIdempotency, TRUE)]

\* client.ts generateIdempotencyKey: the n-th token of crypto.randomUUID()
generateIdempotencyKey(n) == "uuid-" \o ToString(n)

buildHeaders_anyMethod(method, options, autoIdempotency, n) ==
  IF Truthy(options.idempotencyKey) THEN options.idempotencyKey
  ELSE IF autoIdempotency THEN {"uuid-" \o ToString(n)}
  ELSE {}

\* client.ts buildHeaders: the Idempotency-Key header ({} when it is omitted);
\* the four fixed headers are the same on every request and are left out.
buildHeaders(method, options, autoIdempotency, n) ==
  IF method = "POST"
  THEN IF Truthy(options.idempotencyKey) THEN options.idempotencyKey
       ELSE IF autoIdempotency THEN {generateIdempotencyKey(n)}
       ELSE {}
  ELSE {}

\* buildHeaders reached generateIdempotencyKey()
GeneratesKey(method, options, autoIdempotency) ==
  method = "POST" /\ ~Truthy(options.idempotencyKey) /\ autoIdempotency

\* The paths the resources call request() with.
Paths == {"/test"}

\* client.ts buildUrl: new URL(`${this.baseUrl}${path}`), held as the text the
\* base contributes and the path appended to it (the query string comes after
\* both and is left out).
buildUrl(baseUrl, path) ==
  [base |-> baseUrl.origin, slashes |-> baseUrl.slashes, path |-> path]

NoUrl == [base |-> "", slashes |-> 0, path |-> ""]

\* Summary of the attempts made so far: kind if all of them ended that way.
Mix(hist, kind) == IF hist \in {"none", kind} THEN kind ELSE "mixed"

\* The locals of one request() invocation:
\*   pc            "idle", "backoff" (line 132), "fetching" (line 148), "reading"
\*                 (lines 163 / 167), "resolved" or "rejected"
\*   method, options, url, headers, timeoutMs, attempt, lastError   as in the code
\*   timer         the timeout timer of line 136 is pending
\*   response      the response of the current iteration (kept once settled)
\*   caught        the value the catch block received in the current iteration
\*   sleep         the delay of the pending backoff timer
\*   value, thrown what the promise resolved / rejected with
\* and, as a record of what happened, not read by the code:
\*   httpAttempts  number of fetch() calls made
\*   sentKeys      the Idempotency-Key values those calls carried
\*   hist          how the attempts so far ended (see Mix)
\*   abortCause    what aborted the controller of the current iteration
\*   sleeps        number of backoff sleeps begun (line 132)
\*   inFlight      number of fetch() calls made whose promise has not settled
\*   fellThrough   the loop ended by its test and line 245 threw
\*   listeners     number of abort listeners the call added to options.signal
\*                 (line 144) that are still registered on it
IdleCall ==
  [pc |-> "idle", method |-> "GET",
   options |-> [idempotencyKey |-> {}, timeout |-> {}, signal |-> "none"],
   url |-> NoUrl, headers |-> {}, timeoutMs |-> 0, attempt |-> 0, lastError |-> {},
   timer |-> FALSE, response |-> NoResponse, caught |-> {}, sleep |-> {},
   value |-> {}, thrown |-> {}, httpAttempts |-> 0, sentKeys |-> {}, hist |-> "none",
   abortCause |-> "none", sleeps |-> 0, inFlight |-> 0, fellThrough |-> FALSE,
   listeners |-> 0]

\* A query object handed to paginate(): the filter `channel` and `cursor`,
\* each absent or present.
NoQuery == [channel |-> {}, cursor |-> {}]

\* The locals of one paginate() generator:
\*   pc        "none" (paginate() not called), "start" (created, not yet run),
\*             "awaiting" (line 95), "yielded" (suspended at line 98), "done"
\*             (ran to its end), "returned" (the consumer called return()),
\*             "failed" (the list call rejected)
\*   query, cursor, response   as in the code
\*   idx       how many items of response.data the for loop has yielded
\* and, as a record of what happened, not read by the code:
\*   fetches   the params of every list call issued
\*   pages     the pages those calls resolved with
\*   yielded   the items handed to the consumer
\*   pulls     number of next() calls of the consumer
\*   late      how many of them came after the generator had finished
IdlePager ==
  [pc |-> "none", query |-> NoQuery, cursor |-> {}, response |-> {}, idx |-> 0,
   fetches |-> <<>>, pages |-> <<>>, yielded |-> <<>>, pulls |-> 0, late |-> 0]

\* No verify() call has been made: the arguments of the latest call, what it
\* resolved with, and how many digests crypto.subtle.sign computed for it.
\* method is the method called (verify or verifyOrThrow), fault what went
\* wrong in the platform's crypto during the call, thrown what the promise
\* rejected with.
IdleHook ==
  [pc |-> "idle", method |-> "verify", payload |-> [kind |-> "text", content |-> <<>>],
   signature |-> <<>>, secret |-> <<>>, fault |-> "none",
   result |-> {}, thrown |-> {}, digests |-> 0]

\* No timingSafeEqual() call has been made: the arguments of the latest call,
\* what it returned and how many times the body of its loop ran.
IdleCompare ==
  [pc |-> "idle", a |-> <<>>, b |-> <<>>, value |-> {}, iterations |-> 0]

\* The state after new NotificaClient(config).
Constructed(configs) ==
  /\ client \in {Constructor(config) : config \in configs}
  /\ call = [c \in Slots \cup ConcurrentSlots |-> IdleCall]
  /\ calls = 0
  /\ nextUuid = 0
  /\ callKeys = <<>>
  /\ pager = IdlePager
  /\ hook = IdleHook
  /\ cmp = IdleCompare

Init == Constructed(EngineConfigs)
InitHeaders == Constructed(HeaderConfigs)

\* ------------------------------------------------- request(): the loop
\* Each operator below maps the locals r of one invocation to the locals after
\* the code has run up to its next await (or has settled the promise).

\* return v ({} is undefined)
Return(r, v) ==
  [r EXCEPT !.pc = "resolved", !.value = v, !.lastError = {}, !.sleep = {}]

\* an exception leaves request(): the promise rejects with e
Throw(r, e) ==
  [r EXCEPT !.pc = "rejected", !.thrown = {e}, !.lastError = {}, !.sleep = {}]

AttemptHeaders_rebuiltPerAttempt(r) ==
  IF r.headers = {} THEN {}
  ELSE {"uuid-" \o ToString(r.attempt + 1)}

\* The headers handed to fetch() by the attempt (line 150).
AttemptHeaders(r) == r.headers

\* The state of the caller's signal is not looked at before fetch is called.
StartAttempt_ignoresAbortedSignal(r) ==
  [r EXCEPT !.pc = "fetching", !.timer = TRUE, !.sleep = {},
            !.abortCause = "none",
            !.listeners = IF r.options.signal = "live" THEN @ + 1 ELSE @,
            !.httpAttempts = @ + 1, !.inFlight = @ + 1,
            !.sentKeys = @ \cup {AttemptHeaders(r)}]

\* Lines 135-153: arm the timeout timer, chain the caller's signal, call fetch.
\* addEventListener (line 144) adds one more listener to a signal that is
\* present and not aborted; nothing in request() removes it.
StartAttempt(r) ==
  IF r.options.signal = "aborted"
  THEN Throw([r EXCEPT !.timer = FALSE], NotificaError("Request aborted", r.attempt))
  ELSE [r EXCEPT !.pc = "fetching", !.timer = TRUE, !.sleep = {},
                 !.abortCause = "none",
                 !.listeners = IF r.options.signal = "live" THEN @ + 1 ELSE @,
                 !.httpAttempts = @ + 1, !.inFlight = @ + 1,
                 !.sentKeys = @ \cup {AttemptHeaders(r)}]

\* 500 * Math.pow(2, attempt - 1)
RECURSIVE Base(_)
Base(attempt) == IF attempt <= 1 THEN 500 ELSE 2 * Base(attempt - 1)

\* A hint of zero seconds taken for no hint.
backoff_zeroHintIgnored(attempt, lastError, k) ==
  IF lastError # {} /\ Val(lastError).name = "RateLimitError"
       /\ Val(lastError).retryAfter \notin { {}, {0} }
  THEN Val(Val(lastError).retryAfter) * 1000
  ELSE LET base == Base(attempt)
           jitter == (k * base) \div (2 * RandDen)
       IN base + jitter

\* The jitter drawn from [0, base) instead of [0, base / 2).
backoff_fullJitter(attempt, lastError, k) ==
  IF lastError # {} /\ Val(lastError).name = "RateLimitError"
       /\ Val(lastError).retryAfter # {}
  THEN Val(Val(lastError).retryAfter) * 1000
  ELSE LET base == Base(attempt)
           jitter == (k * base) \div RandDen
       IN base + jitter

\* client.ts backoff (lines 290-301): the delay in ms; k / RandDen is the value
\* Math.random() returned.
backoff(attempt, lastError, k) ==
  IF lastError # {} /\ Val(lastError).name = "RateLimitError"
       /\ Val(lastError).retryAfter # {}
  THEN Val(Val(lastError).retryAfter) * 1000
  ELSE LET base == Base(attempt)
           jitter == (k * base) \div (2 * RandDen)
       IN base + jitter

LoopHead_offByOne(r, attempt, maxRetries, k) ==
  IF attempt < maxRetries
  THEN IF attempt > 0
       THEN [r EXCEPT !.attempt = attempt, !.pc = "backoff", !.sleeps = @ + 1,
                      !.sleep = {backoff(attempt, r.lastError, k)}]
       ELSE StartAttempt([r EXCEPT !.attempt = attempt])
  ELSE Throw([r EXCEPT !.fellThrough = TRUE],
             Coalesce(r.lastError,
                      NotificaError("Request failed after max retries", attempt)))

\* Every iteration sleeps first, the first one too.
LoopHead_sleepsBeforeFirst(r, attempt, maxRetries, k) ==
  IF attempt <= maxRetries
  THEN [r EXCEPT !.attempt = attempt, !.pc = "backoff", !.sleeps = @ + 1,
                 !.sleep = {backoff(attempt, r.lastError, k)}]
  ELSE Throw([r EXCEPT !.fellThrough = TRUE],
             Coalesce(r.lastError,
                      NotificaError("Request failed after max retries", attempt)))

\* The loop test of line 130 for iteration `attempt`, then the loop body up to
\* its first await, and line 245 when the test fails.
LoopHead(r, attempt, maxRetries, k) ==
  IF attempt <= maxRetries
  THEN IF attempt > 0
       THEN [r EXCEPT !.attempt = attempt, !.pc = "backoff", !.sleeps = @ + 1,
                      !.sleep = {backoff(attempt, r.lastError, k)}]
       ELSE StartAttempt([r EXCEPT !.attempt = attempt])
  ELSE Throw([r EXCEPT !.fellThrough = TRUE],
             Coalesce(r.lastError,
                      NotificaError("Request failed after max retries", attempt)))

Continue_keepsFirstError(r, e, maxRetries, k) ==
  LoopHead([r EXCEPT !.lastError = IF @ = {} THEN {e} ELSE @,
                     !.response = NoResponse, !.caught = {}, !.abortCause = "none"],
           r.attempt + 1, maxRetries, k)

Continue_ownBudgetFor429(r, e, maxRetries, k) ==
  LoopHead([r EXCEPT !.lastError = {e}, !.response = NoResponse, !.caught = {},
                     !.abortCause = "none"],
           IF e.name = "RateLimitError" THEN r.attempt ELSE r.attempt + 1,
           maxRetries, k)

\* A recorded rate-limit error that carries a Retry-After hint is not
\* overwritten by a later failure.
Continue_keepsHint(r, e, maxRetries, k) ==
  LoopHead([r EXCEPT !.lastError =
                       IF @ # {} /\ Val(@).name = "RateLimitError"
                            /\ Val(@).retryAfter # {}
                       THEN @ ELSE {e},
                     !.response = NoResponse, !.caught = {}, !.abortCause = "none"],
           r.attempt + 1, maxRetries, k)

\* lastError = e; continue (response and error go out of scope)
Continue(r, e, maxRetries, k) ==
  LoopHead([r EXCEPT !.lastError = {e}, !.response = NoResponse, !.caught = {},
                     !.abortCause = "none"],
           r.attempt + 1, maxRetries, k)

Catch_timeoutNotRetried(r0, error, maxRetries, k) ==
  LET r == [r0 EXCEPT !.timer = FALSE, !.caught = {error}] IN
  IF IsNotificaError(error) THEN Throw(r, error)
  ELSE IF error.name = "AbortError"
  THEN Throw(r, TimeoutError(r.timeoutMs, r.attempt))
  ELSE IF r.attempt < maxRetries
       THEN Continue(r, error, maxRetries, k)
       ELSE Throw(r, NotificaError("Request failed: " \o error.message, r.attempt))

\* The catch block retrying on the last iteration too.
Catch_retriesOnLast(r0, error, maxRetries, k) ==
  LET r == [r0 EXCEPT !.timer = FALSE, !.caught = {error}] IN
  IF IsNotificaError(error) THEN Throw(r, error)
  ELSE IF error.name = "AbortError"
  THEN IF r.attempt <= maxRetries
       THEN Continue(r, TimeoutError(r.timeoutMs, r.attempt), maxRetries, k)
       ELSE Throw(r, TimeoutError(r.timeoutMs, r.attempt))
  ELSE IF r.attempt <= maxRetries
       THEN Continue(r, error, maxRetries, k)
       ELSE Throw(r, NotificaError("Request failed: " \o error.message, r.attempt))

\* The catch block without the clearTimeout of line 217.
Catch_keepsTimer(r0, error, maxRetries, k) ==
  LET r == [r0 EXCEPT !.caught = {error}] IN
  IF IsNotificaError(error) THEN Throw(r, error)
  ELSE IF error.name = "AbortError"
  THEN IF r.attempt < maxRetries
       THEN Continue(r, TimeoutError(r.timeoutMs, r.attempt), maxRetries, k)
       ELSE Throw(r, TimeoutError(r.timeoutMs, r.attempt))
  ELSE IF r.attempt < maxRetries
       THEN Continue(r, error, maxRetries, k)
       ELSE Throw(r, NotificaError("Request failed: " \o error.message, r.attempt))

\* Lines 216-241: the catch block, for the caught value `error`.
Catch(r0, error, maxRetries, k) ==
  LET r == [r0 EXCEPT !.timer = FALSE, !.caught = {error}] IN
  IF IsNotificaError(error) THEN Throw(r, error)
  ELSE IF error.name = "AbortError"
  THEN IF r.attempt < maxRetries
       THEN Continue(r, TimeoutError(r.timeoutMs, r.attempt), maxRetries, k)
       ELSE Throw(r, TimeoutError(r.timeoutMs, r.attempt))
  ELSE IF r.attempt < maxRetries
       THEN Continue(r, error, maxRetries, k)
       ELSE Throw(r, NotificaError("Request failed: " \o error.message, r.attempt))

\* The error body is read with response.json(): a body that does not parse
\* throws into the catch block.
Classify_parseErrorEscapes(r, errorBody, maxRetries, k) ==
  IF errorBody = {}
  THEN Catch(r, NativeError("SyntaxError", "Unexpected end of JSON input", r.attempt),
             maxRetries, k)
  ELSE
    LET response == r.response
        requestId == response.requestId
        status == response.status
    IN
    IF status = 429
    THEN LET retryAfter == parseRetryAfter(response)
             error == RateLimitError(
                        Coalesce(ErrorField(errorBody, "message"), "Rate limit exceeded"),
                        retryAfter, requestId, r.attempt)
         IN IF r.attempt < maxRetries
            THEN Continue(r, error, maxRetries, k)
            ELSE Catch(r, error, maxRetries, k)
    ELSE IF status \in RETRYABLE_STATUS_CODES /\ r.attempt < maxRetries
    THEN Continue(r,
           ApiError(Coalesce(ErrorField(errorBody, "message"),
                             "Server error (" \o ToString(status) \o ")"),
                    status,
                    Coalesce(ErrorField(errorBody, "code"), "server_error"),
                    Coalesce(ErrorField(errorBody, "details"), "{}"),
                    requestId, r.attempt),
           maxRetries, k)
    ELSE IF status = 422
    THEN Catch(r,
           ValidationError(Coalesce(ErrorField(errorBody, "message"), "Validation failed"),
                           Coalesce(ErrorField(errorBody, "details"), "{}"),
                           requestId, r.attempt),
           maxRetries, k)
    ELSE Catch(r,
           ApiError(Coalesce(ErrorField(errorBody, "message"),
                             "API error (" \o ToString(status) \o ")"),
                    status,
                    Coalesce(ErrorField(errorBody, "code"), "api_error"),
                    Coalesce(ErrorField(errorBody, "details"), "{}"),
                    requestId, r.attempt),
           maxRetries, k)

\* Lines 166-214: classify a non-2xx response whose body parsed to errorBody.
Classify(r, errorBody, maxRetries, k) ==
  LET response == r.response
      requestId == response.requestId
      status == response.status
  IN
  IF status = 429
  THEN LET retryAfter == parseRetryAfter(response)
           error == RateLimitError(
                      Coalesce(ErrorField(errorBody, "message"), "Rate limit exceeded"),
                      retryAfter, requestId, r.attempt)
       IN IF r.attempt < maxRetries
          THEN Continue(r, error, maxRetries, k)
          ELSE Catch(r, error, maxRetries, k)
  ELSE IF status \in RETRYABLE_STATUS_CODES /\ r.attempt < maxRetries
  THEN Continue(r,
         ApiError(Coalesce(ErrorField(errorBody, "message"),
                           "Server error (" \o ToString(status) \o ")"),
                  status,
                  Coalesce(ErrorField(errorBody, "code"), "server_error"),
                  Coalesce(ErrorField(errorBody, "details"), "{}"),
                  requestId, r.attempt),
         maxRetries, k)
  ELSE IF status = 422
  THEN Catch(r,
         ValidationError(Coalesce(ErrorField(errorBody, "message"), "Validation failed"),
                         Coalesce(ErrorField(errorBody, "details"), "{}"),
                         requestId, r.attempt),
         maxRetries, k)
  ELSE Catch(r,
         ApiError(Coalesce(ErrorField(errorBody, "message"),
                           "API error (" \o ToString(status) \o ")"),
                  status,
                  Coalesce(ErrorField(errorBody, "code"), "api_error"),
                  Coalesce(ErrorField(errorBody, "details"), "{}"),
                  requestId, r.attempt),
         maxRetries, k)

\* ------------------------------------------------------------ the steps
Settled(r) == r.pc \in {"resolved", "rejected"}

\* The DOMException fetch() and response.json() reject with once the
\* attempt's AbortController has been aborted.
AbortError(at) == NativeError("AbortError", "This operation was aborted", at)

NetworkMessages == {"fetch failed"}

\* The caller invokes get/post/put/patch/delete (lines 50-68), which run
\* request() up to its first await: lines 124-128 and the first loop iteration.
Request(c, method, options, limit) ==
  /\ call[c].pc = "idle" \/ Settled(call[c])
  /\ calls < limit
  /\ \E path \in Paths :
     LET generates == GeneratesKey(method, options, client.autoIdempotency)
         url == buildUrl(client.baseUrl, path)
         headers == buildHeaders(method, options, client.autoIdempotency, nextUuid + 1)
         timeoutMs == Coalesce(options.timeout, client.timeout)
         r == [IdleCall EXCEPT !.method = method, !.options = options, !.url = url,
                               !.headers = headers, !.timeoutMs = timeoutMs]
     IN /\ call' = [call EXCEPT ![c] = LoopHead(r, 0, client.maxRetries, 0)]
        /\ nextUuid' = IF generates THEN nextUuid + 1 ELSE nextUuid
        /\ callKeys' = IF generates THEN Append(callKeys, headers) ELSE callKeys
  /\ calls' = calls + 1
  /\ UNCHANGED <<client, pager, hook, cmp>>

\* The backoff timer of line 303 fires: the loop body runs on from line 135.
Wake(c) ==
  /\ call[c].pc = "backoff"
  /\ call' = [call EXCEPT ![c] = StartAttempt(call[c])]
  /\ UNCHANGED <<client, calls, nextUuid, callKeys, pager, hook, cmp>>

\* A 204 is read like any other 2xx.
Respond_parses204(c, response) ==
  /\ call[c].pc = "fetching"
  /\ LET kind == IF Ok(response.status) THEN "ok"
                 ELSE IF response.status \in {429, 500, 502, 503, 504} THEN "retryable"
                 ELSE "client"
         r == [call[c] EXCEPT !.timer = FALSE, !.response = response,
                              !.inFlight = @ - 1, !.hist = Mix(@, kind)]
     IN call' = [call EXCEPT ![c] = [r EXCEPT !.pc = "reading"]]
  /\ UNCHANGED <<client, calls, nextUuid, callKeys, pager, hook, cmp>>

\* fetch() resolves with a response (lines 155-164, up to the await of the body).
Respond(c, response) ==
  /\ call[c].pc = "fetching"
  /\ LET kind == IF Ok(response.status) THEN "ok"
                 ELSE IF response.status \in {429, 500, 502, 503, 504} THEN "retryable"
                 ELSE "client"
         r == [call[c] EXCEPT !.timer = FALSE, !.response = response,
                              !.inFlight = @ - 1, !.hist = Mix(@, kind)]
     IN call' = [call EXCEPT ![c] =
                   IF Ok(response.status) /\ response.status = 204
                   THEN Return(r, {})
                   ELSE [r EXCEPT !.pc = "reading"]]
  /\ UNCHANGED <<client, calls, nextUuid, callKeys, pager, hook, cmp>>

\* client.ts safeParseJson: response.json(), or null when it throws.
safeParseJson(response) == response.body

\* A 2xx body that does not parse resolves the call with undefined.
BodyRead_resolvesUnparsed(c, k) ==
  /\ call[c].pc = "reading"
  /\ LET r == call[c] IN
     call' = [call EXCEPT ![c] =
       IF Ok(r.response.status)
       THEN Return(r, r.response.body)
       ELSE Classify(r, safeParseJson(r.response), client.maxRetries, k)]
  /\ UNCHANGED <<client, calls, nextUuid, callKeys, pager, hook, cmp>>

\* The body has been read: response.json() of line 163, or safeParseJson of
\* line 167 and the classification that follows it.
BodyRead(c, k) ==
  /\ call[c].pc = "reading"
  /\ LET r == call[c] IN
     call' = [call EXCEPT ![c] =
       IF Ok(r.response.status)
       THEN IF r.response.body = {}
            THEN Catch(r, NativeError("SyntaxError", "Unexpected end of JSON input",
                                      r.attempt),
                       client.maxRetries, k)
            ELSE Return(r, r.response.body)
       ELSE Classify(r, safeParseJson(r.response), client.maxRetries, k)]
  /\ UNCHANGED <<client, calls, nextUuid, callKeys, pager, hook, cmp>>

\* The timeout is raced against fetch() instead of aborting it: the catch
\* block runs while the fetch is still pending.
TimerFires_raceWithoutAbort(c, k) ==
  /\ call[c].pc = "fetching"
  /\ call[c].timer
  /\ LET r == [call[c] EXCEPT !.abortCause = "timer", !.hist = Mix(@, "timeout")]
     IN call' = [call EXCEPT ![c] = Catch(r, AbortError(r.attempt), client.maxRetries, k)]
  /\ UNCHANGED <<client, calls, nextUuid, callKeys, pager, hook, cmp>>

\* The timer of line 136 fires while fetch() is pending: controller.abort()
\* makes fetch reject with an AbortError, which the catch block receives.
TimerFires(c, k) ==
  /\ call[c].pc = "fetching"
  /\ call[c].timer
  /\ LET r == [call[c] EXCEPT !.abortCause = "timer", !.inFlight = @ - 1,
                              !.hist = Mix(@, "timeout")]
     IN call' = [call EXCEPT ![c] = Catch(r, AbortError(r.attempt), client.maxRetries, k)]
  /\ UNCHANGED <<client, calls, nextUuid, callKeys, pager, hook, cmp>>

\* fetch() rejects with a network failure.
NetworkFails(c, message, k) ==
  /\ call[c].pc = "fetching"
  /\ LET r == [call[c] EXCEPT !.inFlight = @ - 1, !.hist = Mix(@, "network")]
     IN call' = [call EXCEPT ![c] =
                   Catch(r, NativeError("TypeError", message, r.attempt),
                         client.maxRetries, k)]
  /\ UNCHANGED <<client, calls, nextUuid, callKeys, pager, hook, cmp>>

\* One AbortController for all the invocations: aborting a signal ends every
\* attempt that is in flight.
AbortSignal_sharedController(c, hit, k) ==
  /\ call[c].options.signal = "live"
  /\ call[c].pc \in {"backoff", "fetching", "reading"}
  /\ call' = [d \in DOMAIN call |->
               LET r == IF d = c THEN [call[d] EXCEPT !.options.signal = "aborted",
                                                      !.listeners = 0]
                        ELSE call[d]
               IN IF r.pc = "fetching"
                  THEN Catch([r EXCEPT !.abortCause = "signal", !.inFlight = @ - 1,
                                       !.hist = Mix(@, "cancel")],
                             AbortError(r.attempt), client.maxRetries, k)
                  ELSE r]
  /\ UNCHANGED <<client, calls, nextUuid, callKeys, pager, hook, cmp>>

\* The abort of the caller's signal also ends a pending backoff sleep: the
\* loop body runs on at once and meets the aborted signal.
AbortSignal_wakesSleeper(c, hit, k) ==
  /\ call[c].options.signal = "live"
  /\ call[c].pc \in {"backoff", "fetching", "reading"}
  /\ LET r == [call[c] EXCEPT !.options.signal = "aborted", !.listeners = 0] IN
     call' = [call EXCEPT ![c] =
       IF r.pc = "backoff"
       THEN StartAttempt(r)
       ELSE IF r.pc = "fetching"
       THEN Catch([r EXCEPT !.abortCause = "signal", !.inFlight = @ - 1,
                            !.hist = Mix(@, "cancel")],
                  AbortError(r.attempt), client.maxRetries, k)
       ELSE IF r.pc = "reading" /\ hit
       THEN LET r1 == [r EXCEPT !.abortCause = "signal", !.response.body = {}] IN
            IF Ok(r.response.status)
            THEN Catch(r1, AbortError(r.attempt), client.maxRetries, k)
            ELSE Classify(r1, safeParseJson(r1.response), client.maxRetries, k)
       ELSE r]
  /\ UNCHANGED <<client, calls, nextUuid, callKeys, pager, hook, cmp>>

\* The caller aborts the signal it passed in options.signal.  The listener of
\* line 144 aborts the controller of the attempt: a pending fetch() rejects
\* with an AbortError; a pending body read rejects with it (hit) unless the
\* body had already arrived.  Every listener was added with { once: true }, so
\* the signal drops them all as it fires.
AbortSignal(c, hit, k) ==
  /\ call[c].options.signal = "live"
  /\ call[c].pc \in {"backoff", "fetching", "reading"}
  /\ LET r == [call[c] EXCEPT !.options.signal = "aborted", !.listeners = 0] IN
     call' = [call EXCEPT ![c] =
       IF r.pc = "fetching"
       THEN Catch([r EXCEPT !.abortCause = "signal", !.inFlight = @ - 1,
                            !.hist = Mix(@, "cancel")],
                  AbortError(r.attempt), client.maxRetries, k)
       ELSE IF r.pc = "reading" /\ hit
       THEN LET r1 == [r EXCEPT !.abortCause = "signal", !.response.body = {}] IN
            IF Ok(r.response.status)
            THEN Catch(r1, AbortError(r.attempt), client.maxRetries, k)
            ELSE Classify(r1, safeParseJson(r1.response), client.maxRetries, k)
       ELSE r]
  /\ UNCHANGED <<client, calls, nextUuid, callKeys, pager, hook, cmp>>

Draws == 0..(RandDen - 1)

Next ==
  \E c \in Slots :
    \/ \E method \in EngineMethods, options \in EngineOptions :
         Request(c, method, options, EngineCalls)
    \/ Wake(c)
    \/ \E response \in Responses : Respond(c, response)
    \/ \E k \in Draws : BodyRead(c, k)
    \/ \E k \in Draws : TimerFires(c, k)
    \/ \E message \in NetworkMessages, k \in Draws : NetworkFails(c, message, k)
    \/ \E hit \in BOOLEAN, k \in Draws : AbortSignal(c, hit, k)

Spec == Init /\ [][Next]_vars

\* The engine under timers that fire: a pending backoff timer (line 303) and
\* a pending timeout timer (line 136) each go off in the end.  What the
\* server and the network do, and when, is left open.
SpecTimersFire ==
  /\ Init
  /\ [][Next]_vars
  /\ \A c \in Slots : WF_vars(Wake(c))
  /\ \A c \in Slots : WF_vars(\E k \in Draws : TimerFires(c, k))

\* The same engine, explored over every method and idempotency option.
NextHeaders ==
  \E c \in Slots :
    \/ \E method \in Methods, options \in HeaderOptions :
         Request(c, method, options, MaxCalls)
    \/ Wake(c)
    \/ \E response \in HeaderResponses : Respond(c, response)
    \/ \E k \in Draws : BodyRead(c, k)
    \/ \E k \in Draws : TimerFires(c, k)

SpecHeaders == InitHeaders /\ [][NextHeaders]_vars

\* The same calls on clients constructed with and without a baseUrl.
InitUrl == Constructed(UrlConfigs)
SpecUrl == InitUrl /\ [][NextHeaders]_vars

\* ------------------------------------------------------------ paginate()
\* The server's listing has at most MaxPages pages of at most MaxPageLen items.
MaxPages == 3
MaxPageLen == 2
\* The consumer calls next() at most MaxLate times on a finished generator.
MaxLate == 1

\* The queries paginate() is called with (undefined is the query with no key).
Queries == [channel : { {}, {"email"} }, cursor : { {}, {"c0"} }]

\* The items of page number i when it holds n of them, in the server's order.
PageData(i, n) == [j \in 1..n |-> 10 * i + j]

\* PaginatedResponse: the bodies list call number i may resolve with.  The
\* cursor of PaginationMeta is null, empty, a token naming the next page, or
\* a token the server repeats on every page.
PagesAt(i) ==
  [data : {PageData(i, n) : n \in 0..MaxPageLen},
   meta : [cursor : { {}, {""}, {"p" \o ToString(i + 1)}, {"same"} },
           has_more : BOOLEAN]]

\* The config of the client the generators and the concurrent calls run on.
PlainConfigs == [baseUrl : { {} }, timeout : { {} }, maxRetries : { {1} }, autoIdempotency : { {} }]

NextCursor_ignoresHasMore(meta) ==
  IF Truthy(meta.cursor) THEN meta.cursor ELSE {}

\* Line 103: has_more && cursor ? cursor : undefined
NextCursor(meta) ==
  IF meta.has_more /\ Truthy(meta.cursor) THEN meta.cursor ELSE {}

\* The page leaves paginate() nothing to go on with.
Terminal(page) == ~(page.meta.has_more /\ Truthy(page.meta.cursor))

Params_cursorOnly(query, cursor) ==
  IF Truthy(cursor) THEN [NoQuery EXCEPT !.cursor = cursor] ELSE query

\* Line 94: { ...query, ...(cursor ? { cursor } : {}) }
Params(query, cursor) ==
  IF Truthy(cursor) THEN [query EXCEPT !.cursor = cursor] ELSE query

\* Lines 94-95: build the params and issue the list call.
Fetch(p) ==
  [p EXCEPT !.pc = "awaiting", !.fetches = Append(@, Params(p.query, p.cursor))]

\* The loop also ends when a page carries the cursor it was fetched with.
AfterPage_stopsOnRepeatedCursor(p) ==
  LET cursor == NextCursor(Val(p.response).meta) IN
  IF Truthy(cursor) /\ cursor # p.cursor
  THEN Fetch([p EXCEPT !.cursor = cursor])
  ELSE [p EXCEPT !.pc = "done", !.cursor = cursor]

\* Lines 101-104: take the cursor of the page and test the loop condition.
AfterPage(p) ==
  LET cursor == NextCursor(Val(p.response).meta) IN
  IF Truthy(cursor)
  THEN Fetch([p EXCEPT !.cursor = cursor])
  ELSE [p EXCEPT !.pc = "done", !.cursor = cursor]

\* The next page is requested as soon as the last item of a page is handed out.
ForLoop_prefetch(p) ==
  LET data == Val(p.response).data
      q == [p EXCEPT !.idx = @ + 1, !.yielded = Append(@, data[p.idx + 1])]
  IN IF p.idx + 1 < Len(data) THEN [q EXCEPT !.pc = "yielded"]
     ELSE IF p.idx < Len(data) THEN AfterPage(q)
     ELSE AfterPage(p)

\* The items of a page are handed out last to first.
ForLoop_reversed(p) ==
  LET data == Val(p.response).data IN
  IF p.idx < Len(data)
  THEN [p EXCEPT !.pc = "yielded", !.idx = @ + 1,
                 !.yielded = Append(@, data[Len(data) - p.idx])]
  ELSE AfterPage(p)

\* Lines 97-99: the for loop over response.data runs on to its next yield, or
\* past its end into lines 101-104.
ForLoop(p) ==
  LET data == Val(p.response).data IN
  IF p.idx < Len(data)
  THEN [p EXCEPT !.pc = "yielded", !.idx = @ + 1,
                 !.yielded = Append(@, data[p.idx + 1])]
  ELSE AfterPage(p)

\* The caller invokes paginate(path, query): the generator object is created
\* and none of its body runs.
paginate(query) ==
  /\ pager.pc = "none"
  /\ pager' = [IdlePager EXCEPT !.pc = "start", !.query = query]
  /\ UNCHANGED <<client, call, calls, nextUuid, callKeys, hook, cmp>>

\* The consumer calls next(): the body runs on from where it was suspended.
PullNext ==
  /\ pager.pc \in {"start", "yielded"}
  /\ LET p == [pager EXCEPT !.pulls = @ + 1] IN
     pager' = IF pager.pc = "start" THEN Fetch(p) ELSE ForLoop(p)
  /\ UNCHANGED <<client, call, calls, nextUuid, callKeys, hook, cmp>>

\* The list call of line 95 resolves with a page.
ListResolves(page) ==
  /\ pager.pc = "awaiting"
  /\ Len(pager.pages) + 1 < MaxPages \/ Terminal(page)
  /\ pager' = ForLoop([pager EXCEPT !.response = {page}, !.idx = 0,
                                    !.pages = Append(@, page)])
  /\ UNCHANGED <<client, call, calls, nextUuid, callKeys, hook, cmp>>

\* The rejection of the list call ends the generator as if it had run out of
\* pages.
ListRejects_endsSilently ==
  /\ pager.pc = "awaiting"
  /\ pager' = [pager EXCEPT !.pc = "done"]
  /\ UNCHANGED <<client, call, calls, nextUuid, callKeys, hook, cmp>>

\* The list call of line 95 rejects: the exception leaves the generator.
ListRejects ==
  /\ pager.pc = "awaiting"
  /\ pager' = [pager EXCEPT !.pc = "failed"]
  /\ UNCHANGED <<client, call, calls, nextUuid, callKeys, hook, cmp>>

\* The consumer leaves its for await loop early: return() ends the generator.
ReturnEarly ==
  /\ pager.pc \in {"start", "yielded"}
  /\ pager' = [pager EXCEPT !.pc = "returned"]
  /\ UNCHANGED <<client, call, calls, nextUuid, callKeys, hook, cmp>>

\* The consumer calls next() on a generator that has finished (it ran to its
\* end, was returned, or threw): the call resolves with { done: true } and
\* none of the body runs.
PullFinished ==
  /\ pager.pc \in {"done", "returned", "failed"}
  /\ pager.late < MaxLate
  /\ pager' = [pager EXCEPT !.pulls = @ + 1, !.late = @ + 1]
  /\ UNCHANGED <<client, call, calls, nextUuid, callKeys, hook, cmp>>

InitPaginate == Constructed(PlainConfigs)

NextPaginate ==
  \/ \E query \in Queries : paginate(query)
  \/ PullNext
  \/ \E page \in PagesAt(Len(pager.pages) + 1) : ListResolves(page)
  \/ ListRejects
  \/ ReturnEarly
  \/ PullFinished

SpecPaginate == InitPaginate /\ [][NextPaginate]_vars

\* The traversal under a consumer that drains it: a for await loop calls
\* next() again whenever the generator is suspended at a yield, unless it
\* leaves the loop early.
SpecPaginateDrained == InitPaginate /\ [][NextPaginate]_vars /\ WF_vars(PullNext)

\* ------------------------------------------------------ concurrent calls
\* Number of request() calls the caller issues on the two slots together.
ConcurrentCalls == 2

\* Each call is handed an AbortSignal of its own.
ConcurrentOptions ==
  [idempotencyKey : { {} }, timeout : { {} }, signal : {"live"}]

InitConcurrent == Constructed(PlainConfigs)

\* The engine with two invocations in flight on one client.
NextConcurrent ==
  \E c \in ConcurrentSlots :
    \/ \E method \in EngineMethods, options \in ConcurrentOptions :
         Request(c, method, options, ConcurrentCalls)
    \/ Wake(c)
    \/ \E response \in HeaderResponses : Respond(c, response)
    \/ \E k \in Draws : BodyRead(c, k)
    \/ \E k \in Draws : TimerFires(c, k)
    \/ \E hit \in BOOLEAN, k \in Draws : AbortSignal(c, hit, k)

SpecConcurrent == InitConcurrent /\ [][NextConcurrent]_vars

\* ------------------------------------------------------ webhooks.verify()
\* (src/src/resources/notifications.ts)
\* A string is the sequence of its UTF-16 code units, binary data the sequence
\* of its bytes.  Payload strings of up to MaxText units and secrets of up to
\* MaxSecret units over 'a' and 'e-acute', the second of which takes two bytes
\* in UTF-8.
MaxText == 2
MaxSecret == 1
Chars == {97, 233}
Texts == UNION {[1..n -> Chars] : n \in 0..MaxText}
Secrets == UNION {[1..n -> Chars] : n \in 0..MaxSecret}

\* x ^ y and x | y on non-negative integers
RECURSIVE BitXor(_, _)
BitXor(x, y) ==
  IF x = 0 /\ y = 0 THEN 0
  ELSE (((x % 2) + (y % 2)) % 2) + 2 * BitXor(x \div 2, y \div 2)
RECURSIVE BitOr(_, _)
BitOr(x, y) ==
  IF x = 0 /\ y = 0 THEN 0
  ELSE (IF (x % 2) = 1 \/ (y % 2) = 1 THEN 1 ELSE 0) + 2 * BitOr(x \div 2, y \div 2)

\* new TextEncoder().encode(text): UTF-8, for code units below 0x800.
RECURSIVE encode(_)
encode(text) ==
  IF text = <<>> THEN <<>>
  ELSE LET c == Head(text) IN
       (IF c < 128 THEN <<c>> ELSE <<192 + (c \div 64), 128 + (c % 64)>>)
         \o encode(Tail(text))

\* crypto.subtle.sign('HMAC', key, data): a stand-in for HMAC-SHA256, which is
\* some fixed function of the key bytes and the message bytes; this one folds
\* both into two bytes (the real digest has 32).
RECURSIVE Fold(_, _, _)
Fold(h, bytes, m) ==
  IF bytes = <<>> THEN h ELSE Fold((h * m + Head(bytes) + 1) % 256, Tail(bytes), m)
sign(keyBytes, payloadBytes) ==
  LET h == Fold(Fold(7, keyBytes, 31), payloadBytes, 17)
  IN <<h, (h * 13 + Len(keyBytes) + 3 * Len(payloadBytes)) % 256>>

\* b.toString(16) in capitals.
toHex_upperCase(bytes) ==
  LET digit(n) == IF n < 10 THEN 48 + n ELSE 55 + n
      RECURSIVE join(_)
      join(bs) == IF bs = <<>> THEN <<>>
                  ELSE <<digit(Head(bs) \div 16), digit(Head(bs) % 16)>> \o join(Tail(bs))
  IN join(bytes)

\* Webhooks.toHex: b.toString(16).padStart(2, '0') of every byte, joined.
toHex(bytes) ==
  LET digit(n) == IF n < 10 THEN 48 + n ELSE 87 + n
      RECURSIVE join(_)
      join(bs) == IF bs = <<>> THEN <<>>
                  ELSE <<digit(Head(bs) \div 16), digit(Head(bs) % 16)>> \o join(Tail(bs))
  IN join(bytes)

\* The loop returns at the first position that differs.
timingSafeEqualRun_earlyReturn(a, b) ==
  LET RECURSIVE loop(_, _)
      loop(i, n) ==
        IF i > Len(a) THEN [value |-> TRUE, iterations |-> n]
        ELSE IF a[i] # b[i] THEN [value |-> FALSE, iterations |-> n + 1]
        ELSE loop(i + 1, n + 1)
  IN IF Len(a) # Len(b) THEN [value |-> FALSE, iterations |-> 0] ELSE loop(1, 0)

\* The differences are accumulated with ^= instead of |=.
timingSafeEqualRun_xorAccumulate(a, b) ==
  LET RECURSIVE loop(_, _, _)
      loop(i, result, n) ==
        IF i > Len(a) THEN [value |-> result = 0, iterations |-> n]
        ELSE loop(i + 1, BitXor(result, BitXor(a[i], b[i])), n + 1)
  IN IF Len(a) # Len(b) THEN [value |-> FALSE, iterations |-> 0] ELSE loop(1, 0, 0)

\* Webhooks.timingSafeEqual (lines 258-266): what it returns, and how many
\* times the body of its for loop ran.
timingSafeEqualRun(a, b) ==
  LET RECURSIVE loop(_, _, _)
      loop(i, result, n) ==
        IF i > Len(a) THEN [value |-> result = 0, iterations |-> n]
        ELSE loop(i + 1, BitOr(result, BitXor(a[i], b[i])), n + 1)
  IN IF Len(a) # Len(b) THEN [value |-> FALSE, iterations |-> 0] ELSE loop(1, 0, 0)

\* Webhooks.timingSafeEqual: equal lengths, and the OR of the XORs of the
\* code units is 0.
timingSafeEqual(a, b) == timingSafeEqualRun(a, b).value

\* The payload argument: a string, a Uint8Array or an ArrayBuffer.
Payloads ==
  [kind : {"string"}, content : Texts]
    \cup [kind : {"Uint8Array", "ArrayBuffer"}, content : {encode(t) : t \in Texts}]

\* The signatures verify() is called with: none, the digests of the payloads
\* under the secrets, and those in capitals or cut short by one character.
Signatures ==
  LET digests == {toHex(sign(encode(s), encode(t))) : s \in Secrets \ {<<>>}, t \in Texts}
      capitals(d) == [i \in 1..Len(d) |-> IF d[i] >= 97 THEN d[i] - 32 ELSE d[i]]
  IN {<<>>} \cup digests \cup {capitals(d) : d \in digests}
       \cup {SubSeq(d, 1, Len(d) - 1) : d \in digests}

\* !payload, !signature, !secret: only the empty string is falsy, an object
\* (a Uint8Array or an ArrayBuffer of any length) never is.
Falsy(x) == x = <<>>
FalsyPayload(payload) == payload.kind = "string" /\ Falsy(payload.content)

\* Lines 216-220: the bytes handed to crypto.subtle.sign.
payloadBytes(payload) ==
  IF payload.kind = "string" THEN encode(payload.content) ELSE payload.content

\* What can go wrong in the platform during a call: nothing, the globals
\* crypto / TextEncoder are missing, importKey rejects, sign rejects.
Faults == {"none", "noCrypto", "importKey", "sign"}

\* A payload that is none of string, ArrayBuffer and Uint8Array (a caller
\* without type checking passes a plain object): truthy, and refused by sign.
MalformedPayloads == {[kind |-> "object", content |-> <<>>]}

\* Lines 208-228, the body of the try block: it throws, or returns a value
\* after one digest.  importKey rejects a key of no bytes.
TryBlock(payload, signature, secret, fault) ==
  LET key == encode(secret) IN
  IF fault \in {"noCrypto", "importKey"} \/ key = <<>>
  THEN [threw |-> TRUE, value |-> FALSE, digests |-> 0]
  ELSE IF fault = "sign" \/ payload.kind \notin {"string", "Uint8Array", "ArrayBuffer"}
  THEN [threw |-> TRUE, value |-> FALSE, digests |-> 0]
  ELSE LET computed == toHex(sign(key, payloadBytes(payload)))
       IN [threw |-> FALSE, value |-> timingSafeEqual(computed, signature),
           digests |-> 1]

\* The exception of the try block leaves verify().
verifyUnder_noCatch(payload, signature, secret, fault) ==
  IF FalsyPayload(payload) \/ Falsy(signature) \/ Falsy(secret)
  THEN [result |-> {FALSE}, thrown |-> {}, digests |-> 0]
  ELSE LET t == TryBlock(payload, signature, secret, fault) IN
       IF t.threw
       THEN [result |-> {}, thrown |-> {NativeError("TypeError", "crypto failure", 0)},
             digests |-> t.digests]
       ELSE [result |-> {t.value}, thrown |-> {}, digests |-> t.digests]

\* Webhooks.verify (lines 199-232) under a fault of the platform: what the
\* promise resolves with or rejects with, and the number of digests computed.
verifyUnder(payload, signature, secret, fault) ==
  IF FalsyPayload(payload) \/ Falsy(signature) \/ Falsy(secret)
  THEN [result |-> {FALSE}, thrown |-> {}, digests |-> 0]
  ELSE LET t == TryBlock(payload, signature, secret, fault) IN
       IF t.threw
       THEN [result |-> {FALSE}, thrown |-> {}, digests |-> t.digests]
       ELSE [result |-> {t.value}, thrown |-> {}, digests |-> t.digests]

\* Webhooks.verify on a working platform: what the promise resolves with, and
\* the number of digests computed on the way.
verify(payload, signature, secret) ==
  LET v == verifyUnder(payload, signature, secret, "none")
  IN [result |-> Val(v.result), digests |-> v.digests]

\* The boolean is returned and nothing is thrown.
verifyOrThrow_returnsValid(payload, signature, secret, fault) ==
  LET v == verifyUnder(payload, signature, secret, fault)
  IN [result |-> v.result, thrown |-> {}, digests |-> v.digests]

\* Webhooks.verifyOrThrow (lines 238-247): resolves with undefined or rejects.
verifyOrThrow(payload, signature, secret, fault) ==
  LET v == verifyUnder(payload, signature, secret, fault) IN
  IF v.thrown # {} THEN [result |-> {}, thrown |-> v.thrown, digests |-> v.digests]
  ELSE IF ~Val(v.result)
  THEN [result |-> {}, thrown |-> {NotificaError("Invalid webhook signature", 0)},
        digests |-> v.digests]
  ELSE [result |-> {}, thrown |-> {}, digests |-> v.digests]

\* The caller awaits webhooks.verify(payload, signature, secret).
CallVerify(payload, signature, secret) ==
  /\ hook.pc = "idle"
  /\ LET v == verify(payload, signature, secret) IN
     hook' = [pc |-> "done", method |-> "verify", payload |-> payload,
              signature |-> signature, secret |-> secret, fault |-> "none",
              result |-> {v.result}, thrown |-> {}, digests |-> v.digests]
  /\ UNCHANGED <<client, call, calls, nextUuid, callKeys, pager, cmp>>

\* The caller awaits webhooks.verify(...) while the platform has the fault.
CallVerifyUnder(payload, signature, secret, fault) ==
  /\ hook.pc = "idle"
  /\ LET v == verifyUnder(payload, signature, secret, fault) IN
     hook' = [pc |-> "done", method |-> "verify", payload |-> payload,
              signature |-> signature, secret |-> secret, fault |-> fault,
              result |-> v.result, thrown |-> v.thrown, digests |-> v.digests]
  /\ UNCHANGED <<client, call, calls, nextUuid, callKeys, pager, cmp>>

\* The caller awaits webhooks.verifyOrThrow(payload, signature, secret).
CallVerifyOrThrow(payload, signature, secret, fault) ==
  /\ hook.pc = "idle"
  /\ LET v == verifyOrThrow(payload, signature, secret, fault) IN
     hook' = [pc |-> "done", method |-> "verifyOrThrow", payload |-> payload,
              signature |-> signature, secret |-> secret, fault |-> fault,
              result |-> v.result, thrown |-> v.thrown, digests |-> v.digests]
  /\ UNCHANGED <<client, call, calls, nextUuid, callKeys, pager, cmp>>

\* timingSafeEqual(a, b) is called.
CallTimingSafeEqual(a, b) ==
  /\ cmp.pc = "idle"
  /\ LET run == timingSafeEqualRun(a, b) IN
     cmp' = [pc |-> "done", a |-> a, b |-> b, value |-> {run.value},
             iterations |-> run.iterations]
  /\ UNCHANGED <<client, call, calls, nextUuid, callKeys, pager, hook>>

InitVerify == Constructed(PlainConfigs)

NextVerify ==
  /\ hook.pc = "idle"
  /\ \E payload \in Payloads, signature \in Signatures, secret \in Secrets :
       CallVerify(payload, signature, secret)

SpecVerify == InitVerify /\ [][NextVerify]_vars

\* verify() and verifyOrThrow() on a platform that may fail, with payloads of
\* at most one unit or byte and with a malformed one.
FaultPayloads ==
  {payload \in Payloads : Len(payload.content) <= 1} \cup MalformedPayloads

NextWebhooks ==
  /\ hook.pc = "idle"
  /\ \E payload \in FaultPayloads, signature \in Signatures, secret \in Secrets,
        fault \in Faults :
       \/ CallVerifyUnder(payload, signature, secret, fault)
       \/ CallVerifyOrThrow(payload, signature, secret, fault)

SpecWebhooks == InitVerify /\ [][NextWebhooks]_vars

\* The strings timingSafeEqual is called with: up to MaxCompare code units
\* over 'a', 'b' and 'c'.
MaxCompare == 3
CompareStrings == UNION {[1..n -> {97, 98, 99}] : n \in 0..MaxCompare}

NextCompare ==
  /\ cmp.pc = "idle"
  /\ \E a \in CompareStrings, b \in CompareStrings : CallTimingSafeEqual(a, b)

SpecCompare == InitVerify /\ [][NextCompare]_vars

\* ================================================================ claims
\* The caller's signal, if any, has not fired.
NoCancel(r) == r.options.signal # "aborted"

\* A 2xx response is at hand whose status is 204 or whose body parses as JSON.
Answered2xx(r) == r.pc # "fetching" /\ Ok(r.response.status)
Parseable(r) == r.response.status = 204 \/ r.response.body # {}

\* C1 (as stated): without cancellation, a call whose every attempt answered a
\* status of {429,500,502,503,504} has rejected after exactly maxRetries + 1
\* attempts once it settles, and an attempt that answers 2xx is the last one: the
\* call resolves with it (it neither rejects nor goes on to another attempt).
C1_AsStated ==
  \A c \in Slots :
    LET r == call[c] IN
    /\ (Settled(r) /\ NoCancel(r) /\ r.hist = "retryable")
         => (r.pc = "rejected" /\ r.httpAttempts = client.maxRetries + 1)
    /\ (NoCancel(r) /\ Answered2xx(r))
         => (r.pc \in {"reading", "resolved"} /\ r.httpAttempts = r.attempt + 1)

\* C1 (amended): the same, for a 2xx answer whose status is 204 or whose body
\* parses as JSON.
C1_RetryBudget ==
  \A c \in Slots :
    LET r == call[c] IN
    /\ (Settled(r) /\ NoCancel(r) /\ r.hist = "retryable")
         => (r.pc = "rejected" /\ r.httpAttempts = client.maxRetries + 1)
    /\ (NoCancel(r) /\ Answered2xx(r) /\ Parseable(r))
         => (r.pc \in {"reading", "resolved"} /\ r.httpAttempts = r.attempt + 1)

\* A call that resolved on its last permitted attempt, after retries.
C1_Witness ==
  \E c \in Slots :
    /\ call[c].pc = "resolved" /\ NoCancel(call[c])
    /\ call[c].httpAttempts = client.maxRetries + 1
    /\ call[c].httpAttempts >= 2

\* C2: a response with a status of {400,401,403,404,422} ends the call with a
\* rejection and no further attempt; when it is the answer to the first attempt
\* the call has made exactly one attempt, whatever maxRetries is.
C2_ClientErrorsNotRetried ==
  \A c \in Slots :
    LET r == call[c] IN
    /\ r.hist = "client" => (r.httpAttempts = 1 /\ r.pc \in {"reading", "rejected"})
    /\ (r.pc # "fetching" /\ r.response.status \in {400, 401, 403, 404, 422})
         => (r.pc \in {"reading", "rejected"} /\ r.httpAttempts = r.attempt + 1)

\* A call rejected by a 4xx on its only attempt although retries were left.
C2_Witness ==
  \E c \in Slots :
    /\ call[c].pc = "rejected" /\ call[c].hist = "client"
    /\ call[c].response.status = 422
    /\ client.maxRetries = 3 /\ call[c].httpAttempts = 1

\* C3: when the response being classified has a status of {429,500,502,503,504}
\* and attempt < maxRetries, the step does not settle the call: the error built
\* from that response becomes lastError and the loop goes to iteration
\* attempt + 1.  An error the call rejects with was built in the loop iteration
\* that threw it, never in an earlier one.
C3_RetriedErrorsNotSurfaced ==
  [][\A c \in Slots :
       LET r == call[c]
           n == call'[c]
       IN /\ (r.pc = "reading" /\ n.pc # "reading"
                /\ r.response.status \in {429, 500, 502, 503, 504}
                /\ r.attempt < client.maxRetries)
              => /\ n.pc = "backoff"
                 /\ n.attempt = r.attempt + 1
                 /\ n.lastError # {}
                 /\ Val(n.lastError).status = {r.response.status}
                 /\ Val(n.lastError).at = r.attempt
          /\ (n.pc = "rejected" /\ r.pc # "rejected")
              => Val(n.thrown).at = n.attempt]_vars

\* A call rejected on a retry with an error other than the one recorded before.
C3_Witness ==
  \E c \in Slots :
    /\ call[c].pc = "rejected" /\ call[c].attempt = 1
    /\ call[c].hist = "retryable"
    /\ Val(call[c].thrown).status = {429}

\* C4: a call never makes more than maxRetries + 1 HTTP attempts, whatever mix of
\* 429, 5xx, timeouts and network failures it meets.
C4_SingleBudget ==
  \A c \in Slots : call[c].httpAttempts <= client.maxRetries + 1

\* A call that used its whole budget on a mix of failures.
C4_Witness ==
  \E c \in Slots :
    /\ call[c].httpAttempts = client.maxRetries + 1
    /\ client.maxRetries = 3
    /\ call[c].hist = "mixed" /\ call[c].pc = "rejected"

\* C5: every HTTP attempt of one call carries the same Idempotency-Key value,
\* and the keys generated for distinct POST calls differ from one another.
C5_OneKeyPerCall ==
  /\ \A c \in Slots : Cardinality(call[c].sentKeys) <= 1
  /\ \A i, j \in 1..Len(callKeys) : i # j => callKeys[i] # callKeys[j]

\* The second of two auto-keyed POST calls, retried once with its key.
C5_Witness ==
  \E c \in Slots :
    /\ Len(callKeys) = 2
    /\ call[c].httpAttempts = 2
    /\ call[c].sentKeys = {callKeys[2]}
    /\ callKeys[2] # {}

\* The Idempotency-Key header the claim expects on the requests of a call, with
\* `supplied` saying when the caller counts as having given a key.
ExpectedKey(r, supplied) ==
  IF r.method = "POST" /\ supplied THEN r.options.idempotencyKey
  ELSE IF r.method = "POST" /\ client.autoIdempotency THEN r.headers
  ELSE {}

\* C6 (as stated): a request carries Idempotency-Key iff the method is POST and
\* the caller gave options.idempotencyKey (its value is sent) or autoIdempotency
\* is on (a generated token is sent).
C6_AsStated ==
  \A c \in Slots :
    LET r == call[c]
        supplied == r.options.idempotencyKey # {}
    IN \A h \in r.sentKeys :
         /\ h = ExpectedKey(r, supplied)
         /\ h # {} <=> (r.method = "POST" /\ (supplied \/ client.autoIdempotency))

\* C6 (amended): the same, where the caller gave a non-empty
\* options.idempotencyKey; an empty string counts as no key.
C6_KeyOnlyOnPost ==
  \A c \in Slots :
    LET r == call[c]
        supplied == r.options.idempotencyKey \notin { {}, {""} }
    IN \A h \in r.sentKeys :
         /\ h = ExpectedKey(r, supplied)
         /\ h # {} <=> (r.method = "POST" /\ (supplied \/ client.autoIdempotency))
         /\ (r.method = "POST" /\ ~supplied /\ client.autoIdempotency)
              => h \in {callKeys[i] : i \in 1..Len(callKeys)}

\* A POST given the empty string as its key and sent with a generated token.
C6_Witness ==
  \E c \in Slots :
    /\ call[c].method = "POST"
    /\ call[c].options.idempotencyKey = {""}
    /\ client.autoIdempotency
    /\ call[c].sentKeys = {call[c].headers}
    /\ call[c].headers \notin { {}, {""} }

\* C7: a call rejects with a TimeoutError only when the attempt was aborted by
\* the timeout timer, never when it was aborted by the caller's signal.
C7_TimeoutErrorOnlyFromTimer ==
  \A c \in Slots :
    (call[c].pc = "rejected" /\ Val(call[c].thrown).name = "TimeoutError")
      => call[c].abortCause = "timer"

\* C8: without cancellation, a call whose every attempt timed out has made
\* maxRetries + 1 attempts and rejected with the TimeoutError of
\* options.timeout ?? config timeout; a call whose every attempt failed in the
\* network has made maxRetries + 1 attempts and rejected with a NotificaError
\* "Request failed: <message of the error fetch threw>".
C8_TransportFailuresRetried ==
  \A c \in Slots :
    LET r == call[c] IN
    /\ (Settled(r) /\ NoCancel(r) /\ r.hist = "timeout")
         => /\ r.pc = "rejected"
            /\ r.httpAttempts = client.maxRetries + 1
            /\ Val(r.thrown).name = "TimeoutError"
            /\ Val(r.thrown).message =
                 "Request timed out after "
                   \o ToString(Coalesce(r.options.timeout, client.timeout)) \o "ms"
    /\ (Settled(r) /\ NoCancel(r) /\ r.hist = "network")
         => /\ r.pc = "rejected"
            /\ r.httpAttempts = client.maxRetries + 1
            /\ Val(r.thrown).name = "NotificaError"
            /\ Val(r.thrown).message = "Request failed: " \o Val(r.caught).message

\* A call with a per-call timeout that timed out on all four attempts.
C8_Witness ==
  \E c \in Slots :
    /\ call[c].pc = "rejected" /\ call[c].hist = "timeout"
    /\ call[c].httpAttempts = 4
    /\ call[c].options.timeout = {5000}
    /\ Val(call[c].thrown).message = "Request timed out after 5000ms"

\* C9: when the final attempt answers 500, 502, 503 or 504 and the error body
\* gives no code, the error thrown has code 'server_error'.
C9_ServerErrorCode ==
  \A c \in Slots :
    LET r == call[c] IN
    (r.pc = "rejected" /\ r.response.status \in {500, 502, 503, 504}
       /\ ErrorField(r.response.body, "code") = {})
      => Val(r.thrown).code = {"server_error"}

\* C10: the error thrown for a non-2xx final response follows from its status:
\* 422 gives a ValidationError (422, 'validation_failed', the body's details),
\* 429 a RateLimitError (429, 'rate_limit_exceeded', the hint of that response
\* or null), any other a plain ApiError with the response's status; each carries
\* the response's x-request-id or null.
C10_ErrorByStatus ==
  \A c \in Slots :
    LET r == call[c]
        e == Val(r.thrown)
        status == r.response.status
    IN (r.pc = "rejected" /\ status # 0 /\ ~Ok(status))
         => /\ e.requestId = r.response.requestId
            /\ e.status = {status}
            /\ status = 422
                 => /\ e.name = "ValidationError"
                    /\ e.code = {"validation_failed"}
                    /\ e.details = {Coalesce(ErrorField(r.response.body, "details"), "{}")}
            /\ status = 429
                 => /\ e.name = "RateLimitError"
                    /\ e.code = {"rate_limit_exceeded"}
                    /\ e.retryAfter = parseRetryAfter(r.response)
            /\ status \notin {422, 429} => e.name = "ApiError"

\* A 429 answered to a retry, thrown with its own hint and request id.
C10_Witness ==
  \E c \in Slots :
    /\ call[c].pc = "rejected" /\ call[c].attempt >= 1
    /\ call[c].response.status = 429
    /\ call[c].response.requestId = {"req-1"}
    /\ Val(call[c].thrown).retryAfter = {2}

\* ------------------------------------------------------------------ C11
\* lastError is a RateLimitError carrying a retry-after hint.
Hinted(lastError) ==
  /\ lastError # {}
  /\ Val(lastError).name = "RateLimitError"
  /\ Val(lastError).retryAfter # {}

\* d is a delay of retry number a under exponential backoff with jitter.
InWindow(d, a) == 500 * 2^(a - 1) <= d /\ d < 750 * 2^(a - 1)

\* C11: whenever the loop starts to sleep before a retry, the delay is
\* retryAfter x 1000 ms if the failure just recorded is a RateLimitError with a
\* non-null hint (0 gives no delay at all), and the exponential backoff
\* otherwise; a 429 whose Retry-After is a number of seconds n is followed by a
\* sleep of n x 1000 ms, one whose Retry-After is absent or unparseable by the
\* exponential backoff.
C11_DelayBeforeRetry ==
  [][\A c \in Slots :
       LET r == call[c]
           n == call'[c]
           header == r.response.retryAfter
       IN (r.pc # "backoff" /\ n.pc = "backoff") =>
            /\ n.lastError # {}
            /\ IF Hinted(n.lastError)
               THEN n.sleep = {Val(Val(n.lastError).retryAfter) * 1000}
               ELSE \E d \in n.sleep : InWindow(d, n.attempt)
            /\ (r.pc = "reading" /\ r.response.status = 429) =>
                 /\ Val(n.lastError).name = "RateLimitError"
                 /\ header.form = "number" => n.sleep = {header.n * 1000}
                 /\ header.form \in {"absent", "junk"} =>
                      \E d \in n.sleep : InWindow(d, n.attempt)]_vars

\* A retry that follows "Retry-After: 0" is sleeping for 0 ms.
C11_Witness ==
  \E c \in Slots :
    /\ call[c].pc = "backoff"
    /\ Hinted(call[c].lastError)
    /\ Val(call[c].lastError).retryAfter = {0}
    /\ call[c].sleep = {0}

\* ------------------------------------------------------------------ C12
\* C12: a sleep before retry number a that follows a failure without a
\* rate-limit hint lasts at least 500 * 2^(a-1) ms and less than
\* 750 * 2^(a-1) ms, and is longer than the hint-less delay before retry a-1
\* under every jitter draw.
C12_ExponentialWindow ==
  \A c \in Slots :
    LET r == call[c] IN
    (r.pc = "backoff" /\ ~Hinted(r.lastError)) =>
      \A d \in r.sleep :
        /\ r.attempt >= 1
        /\ InWindow(d, r.attempt)
        /\ r.attempt >= 2 => \A k \in Draws : backoff(r.attempt - 1, {}, k) < d

\* The third retry sleeps with a non-zero jitter after a failure without a hint.
C12_Witness ==
  \E c \in Slots :
    /\ call[c].pc = "backoff"
    /\ ~Hinted(call[c].lastError)
    /\ call[c].attempt = 3
    /\ \E d \in call[c].sleep : d > 2000

\* ------------------------------------------------------------------ C13
\* The items of the pages, page after page.
RECURSIVE ConcatData(_)
ConcatData(pages) ==
  IF pages = <<>> THEN <<>> ELSE pages[1].data \o ConcatData(Tail(pages))

\* C13: a generator that has run to its end did so after a page reporting
\* has_more = false: every page that reported has_more = true was followed by
\* a further list call.
C13_HasMoreFalseSoleTermination ==
  pager.pc = "done" =>
    \A i \in 1..Len(pager.pages) :
      pager.pages[i].meta.has_more => Len(pager.fetches) > i

\* ------------------------------------------------------------------ C14
\* C14: no list call follows a page that reported has_more = false, whatever
\* cursor that page carried.
C14_NoFetchAfterLastPage ==
  \A i \in 1..Len(pager.pages) :
    ~pager.pages[i].meta.has_more => Len(pager.fetches) = i

\* The consumer pulled past a page with has_more = false and a non-null,
\* non-empty cursor: the generator ended.
C14_Witness ==
  /\ pager.pc = "done"
  /\ pager.pulls > Len(pager.yielded)
  /\ LET last == pager.pages[Len(pager.pages)] IN
       ~last.meta.has_more /\ Truthy(last.meta.cursor)

\* ------------------------------------------------------------------ C15
\* C15: a list call is issued only while a next() of the consumer is
\* unanswered and every item of every page received so far has been handed
\* out; none is issued before the first next(), and none by any step other
\* than the run of the body that a next() started.
C15_FetchOnDemand ==
  [][Len(pager'.fetches) # Len(pager.fetches) =>
       /\ Len(pager'.fetches) = Len(pager.fetches) + 1
       /\ Len(pager.fetches) = Len(pager'.pages)
       /\ pager'.yielded = pager.yielded
       /\ pager'.yielded = ConcatData(pager'.pages)
       /\ pager'.pulls = Len(pager'.yielded) + 1]_vars

\* The second page is being fetched for the third next(), after both items of
\* the first page were handed out.
C15_Witness ==
  /\ pager.pc = "awaiting"
  /\ Len(pager.fetches) = 2
  /\ Len(pager.pages[1].data) = 2
  /\ pager.pulls = 3

\* ------------------------------------------------------------------ C16
\* C16: a generator that has run to its end has handed out exactly the items
\* of the pages it received, page after page and in each page's order, and it
\* issued one list call per page received, the last page included.
C16_DrainedYieldsAll ==
  pager.pc = "done" =>
    /\ pager.yielded = ConcatData(pager.pages)
    /\ Len(pager.fetches) = Len(pager.pages)

\* A traversal of three pages, one of them with two items, has ended.
C16_Witness ==
  /\ pager.pc = "done"
  /\ Len(pager.pages) = 3
  /\ \E i \in 1..3 : Len(pager.pages[i].data) = 2
  /\ Len(pager.yielded) >= 3

\* ------------------------------------------------------------------ C17
\* C17 as stated: every list call carries the caller's filter, the first one
\* no cursor, and each later one the cursor of the page before it.
C17_AsStated ==
  \A i \in 1..Len(pager.fetches) :
    /\ pager.fetches[i].channel = pager.query.channel
    /\ i = 1 => pager.fetches[i].cursor = {}
    /\ i > 1 => pager.fetches[i].cursor = pager.pages[i - 1].meta.cursor

\* C17: every list call carries the caller's filter; the first one carries the
\* caller's query as it is (a cursor only if the caller put one in it), and
\* each later one the cursor of the page before it.
C17_FiltersAndCursor ==
  \A i \in 1..Len(pager.fetches) :
    /\ pager.fetches[i].channel = pager.query.channel
    /\ i = 1 => pager.fetches[i] = pager.query
    /\ i > 1 => pager.fetches[i].cursor = pager.pages[i - 1].meta.cursor

\* A filtered traversal without a cursor of the caller has issued its third
\* list call.
C17_Witness ==
  /\ Len(pager.fetches) = 3
  /\ pager.query = [channel |-> {"email"}, cursor |-> {}]
  /\ pager.fetches[3].cursor = {"p3"}

\* ------------------------------------------------------------------ C18
\* C18: with two calls in flight, each on a signal of its own, the step in
\* which one call's signal is aborted ends that call's pending fetch without a
\* further HTTP call, and leaves every local of the other call as it was: its
\* attempt, timer, response and outcome.
C18_AbortIsPerCall ==
  [][\A c \in ConcurrentSlots :
       (call[c].options.signal = "live" /\ call'[c].options.signal = "aborted") =>
         /\ call[c].pc = "fetching" =>
              /\ call'[c].pc # "fetching"
              /\ call'[c].httpAttempts = call[c].httpAttempts
         /\ \A d \in ConcurrentSlots \ {c} : call'[d] = call[d]]_vars

\* The first call was cancelled in flight while the second call's fetch, with
\* its timer armed and its signal untouched, is still pending.
C18_Witness ==
  /\ call[1].options.signal = "aborted"
  /\ call[1].hist = "cancel"
  /\ call[2].pc = "fetching"
  /\ call[2].timer
  /\ call[2].options.signal = "live"

\* ------------------------------------------------------------------ C19
\* C19: a verify() call whose payload (a string or raw bytes) is empty, or
\* whose signature or secret is empty, resolved to false and computed no
\* digest.
C19_EmptyInputRejected ==
  (/\ hook.pc = "done"
   /\ \/ hook.payload.content = <<>>
      \/ hook.signature = <<>>
      \/ hook.secret = <<>>)
    => hook.result = {FALSE} /\ hook.digests = 0

\* ------------------------------------------------------------------ C20
\* Two lowercase hexadecimal digits per byte.
LowerHex(bytes) ==
  LET digits == <<48, 49, 50, 51, 52, 53, 54, 55, 56, 57, 97, 98, 99, 100, 101, 102>>
  IN [i \in 1..(2 * Len(bytes)) |->
        LET b == bytes[(i + 1) \div 2]
        IN digits[(IF (i % 2) = 1 THEN b \div 16 ELSE b % 16) + 1]]

\* C20: a verify() call with non-empty payload, signature and secret resolved
\* to true exactly if the signature is the lowercase hexadecimal digest of
\* the payload bytes under the secret bytes, and the same call with these
\* bytes handed over as a string's encoding, a Uint8Array or an ArrayBuffer
\* resolves to the same value.
C20_TrueIffDigest ==
  (/\ hook.pc = "done"
   /\ hook.payload.content # <<>>
   /\ hook.signature # <<>>
   /\ hook.secret # <<>>)
    => LET bytes == IF hook.payload.kind = "string"
                    THEN encode(hook.payload.content) ELSE hook.payload.content
           digest == LowerHex(sign(encode(hook.secret), bytes))
       IN /\ hook.result = {hook.signature = digest}
          /\ \A other \in Payloads :
               (other.content # <<>> /\ payloadBytes(other) = bytes) =>
                 verify(other, hook.signature, hook.secret).result
                   = (hook.signature = digest)

\* A string payload with a character of two UTF-8 bytes was verified against
\* its digest.
C20_Witness ==
  /\ hook.pc = "done"
  /\ hook.payload.kind = "string"
  /\ \E i \in 1..Len(hook.payload.content) : hook.payload.content[i] = 233
  /\ hook.result = {TRUE}

\* ------------------------------------------------------------------ C21
\* C21: a verify() call never rejects: it resolves to a boolean, and to false
\* whenever the crypto globals are missing, importKey or sign rejects, or the
\* payload is of no supported type.
C21_VerifyNeverRejects ==
  (hook.pc = "done" /\ hook.method = "verify") =>
    /\ hook.thrown = {}
    /\ hook.result \in { {TRUE}, {FALSE} }
    /\ (hook.fault # "none" \/ hook.payload \in MalformedPayloads) =>
         hook.result = {FALSE}

\* sign rejected in a call whose signature is the digest of its payload: the
\* call resolved to false.
C21_Witness ==
  /\ hook.pc = "done"
  /\ hook.method = "verify"
  /\ hook.fault = "sign"
  /\ hook.signature = LowerHex(sign(encode(hook.secret), payloadBytes(hook.payload)))
  /\ ~Falsy(hook.secret)
  /\ ~FalsyPayload(hook.payload)
  /\ hook.result = {FALSE}

\* ------------------------------------------------------------------ C22
\* C22: a timingSafeEqual() call on strings of equal length ran the body of
\* its loop once per position, wherever the strings differ.
C22_EveryPositionVisited ==
  (cmp.pc = "done" /\ Len(cmp.a) = Len(cmp.b)) => cmp.iterations = Len(cmp.a)

\* Two strings of three characters that differ at the first position were
\* compared in three iterations.
C22_Witness ==
  /\ cmp.pc = "done"
  /\ Len(cmp.a) = 3
  /\ Len(cmp.b) = 3
  /\ cmp.a[1] # cmp.b[1]
  /\ cmp.iterations = 3

\* ------------------------------------------------------------------ C23
\* C23: a timingSafeEqual() call returned true exactly if its two arguments
\* are the same string; strings of different length give false.
C23_TrueIffSameString ==
  cmp.pc = "done" =>
    /\ cmp.value = {cmp.a = cmp.b}
    /\ Len(cmp.a) # Len(cmp.b) => cmp.value = {FALSE}

\* 'ab' was compared with 'ba' and found different.
C23_Witness ==
  /\ cmp.pc = "done"
  /\ cmp.a = <<97, 98>>
  /\ cmp.b = <<98, 97>>
  /\ cmp.value = {FALSE}

\* ------------------------------------------------------------------ C27
\* C27: a verifyOrThrow() call rejected with NotificaError 'Invalid webhook
\* signature' exactly if verify() on its arguments gives false, and resolved
\* with no value exactly if verify() gives true.
C27_ThrowsIffInvalid ==
  (hook.pc = "done" /\ hook.method = "verifyOrThrow") =>
    LET valid == verifyUnder(hook.payload, hook.signature, hook.secret,
                             hook.fault).result = {TRUE}
    IN /\ hook.result = {}
       /\ valid <=> hook.thrown = {}
       /\ ~valid <=> (\E e \in hook.thrown :
                        /\ e.name = "NotificaError"
                        /\ e.message = "Invalid webhook signature")

\* verifyOrThrow() rejected a signature of four characters on a working platform.
C27_Witness ==
  /\ hook.pc = "done"
  /\ hook.method = "verifyOrThrow"
  /\ hook.fault = "none"
  /\ ~FalsyPayload(hook.payload)
  /\ Len(hook.signature) = 4
  /\ hook.thrown # {}

\* ------------------------------------------------------------------ C24
\* C24 as stated: on a client with maxRetries = 0 every settled call has made
\* exactly one HTTP attempt.
C24_AsStated ==
  \A c \in Slots :
    (Settled(call[c]) /\ client.maxRetries = 0) => call[c].httpAttempts = 1

\* C24: on a client with maxRetries = 0 a settled call has made exactly one
\* HTTP attempt, whatever the attempt ended in, unless it was handed a signal
\* that was already aborted: then it made none and rejected with 'Request
\* aborted'.
C24_OneAttemptAtZeroRetries ==
  \A c \in Slots :
    LET r == call[c]
        refused == \E e \in r.thrown : e.message = "Request aborted"
    IN (Settled(r) /\ client.maxRetries = 0) =>
         /\ r.httpAttempts = (IF refused THEN 0 ELSE 1)
         /\ refused => r.options.signal = "aborted"
         /\ r.options.signal = "none" => r.httpAttempts = 1

\* A call on a client with maxRetries = 0 was answered with a 5xx or 429 and
\* rejected after its one attempt.
C24_Witness ==
  \E c \in Slots :
    /\ call[c].pc = "rejected"
    /\ client.maxRetries = 0
    /\ call[c].hist = "retryable"
    /\ call[c].httpAttempts = 1

\* ------------------------------------------------------------------ C25
\* The generic messages of an error built without an error envelope.
GenericMessages(status) ==
  IF status = 429 THEN {"Rate limit exceeded"}
  ELSE IF status = 422 THEN {"Validation failed"}
  ELSE {"Server error (" \o ToString(status) \o ")",
        "API error (" \o ToString(status) \o ")"}

\* The class of the error a status is reported as.
ClassOf(status) ==
  IF status = 429 THEN "RateLimitError"
  ELSE IF status = 422 THEN "ValidationError"
  ELSE "ApiError"

\* C25: when the body of a non-2xx response turns out absent or not JSON, the
\* call goes on by status alone: a 429 or 5xx with retries left is recorded
\* and retried, anything else rejects, and in both cases the error is of the
\* class of the status, carries the status and a generic message, and is no
\* parse error.
C25_BadErrorBodyDegrades ==
  [][\A c \in Slots :
       LET r == call[c]
           n == call'[c]
           status == r.response.status
           retry == status \in {429, 500, 502, 503, 504} /\ r.attempt < client.maxRetries
           generic(e) == /\ e.name = ClassOf(status)
                         /\ e.status = {status}
                         /\ e.message \in GenericMessages(status)
       IN (/\ r.pc = "reading"
           /\ ~Ok(status)
           /\ r.response.body = {}
           /\ n.pc # "reading") =>
            IF retry
            THEN n.pc = "backoff" /\ \E e \in n.lastError : generic(e)
            ELSE n.pc = "rejected" /\ \E e \in n.thrown : generic(e)]_vars

\* A 500 without a readable body was the final answer: the call rejected with
\* an ApiError and the generic message.
C25_Witness ==
  \E c \in Slots :
    /\ call[c].pc = "rejected"
    /\ call[c].response.status = 500
    /\ call[c].response.body = {}
    /\ call[c].options.signal = "none"
    /\ \E e \in call[c].thrown : e.name = "ApiError" /\ e.message = "API error (500)"

\* ------------------------------------------------------------------ C26
\* C26 as stated: a 204 resolves the call with no value at once, without a
\* read of the body; the read of any other 2xx ends with the call resolved
\* with the body.
C26_AsStated ==
  [][\A c \in Slots :
       LET r == call[c]
           n == call'[c]
       IN /\ (r.pc = "fetching" /\ n.pc # "fetching" /\ n.response.status = 204) =>
               n.pc = "resolved" /\ n.value = {}
          /\ r.pc = "reading" => r.response.status # 204
          /\ (r.pc = "reading" /\ Ok(r.response.status) /\ n.pc # "reading") =>
               n.pc = "resolved" /\ n.value = r.response.body /\ n.value # {}]_vars

\* C26: a 204 resolves the call with no value at once, without a read of the
\* body; the read of any other 2xx whose body is JSON, when no cancellation
\* cuts it, ends with the call resolved with that body, and the read of a body
\* that is not JSON never resolves the call.
C26_SuccessValue ==
  [][\A c \in Slots :
       LET r == call[c]
           n == call'[c]
       IN /\ (r.pc = "fetching" /\ n.pc # "fetching" /\ n.response.status = 204) =>
               n.pc = "resolved" /\ n.value = {}
          /\ r.pc = "reading" => r.response.status # 204
          /\ (/\ r.pc = "reading" /\ Ok(r.response.status) /\ n.pc # "reading"
              /\ r.response.body # {}
              /\ n.options.signal = r.options.signal) =>
               n.pc = "resolved" /\ n.value = r.response.body
          /\ (/\ r.pc = "reading" /\ Ok(r.response.status) /\ n.pc # "reading"
              /\ r.response.body = {}) =>
               n.pc \in {"backoff", "rejected"}]_vars

\* A call answered 204 resolved with no value; the response is on record.
C26_Witness ==
  \E c \in Slots :
    /\ call[c].pc = "resolved"
    /\ call[c].response.status = 204
    /\ call[c].value = {}

\* C28: a client constructed with no baseUrl sends every request to a URL
\* that starts with https://api.usenotifica.com.br/v1.
C28_DefaultIsDocumentedOrigin ==
  \A c \in Slots :
    (call[c].pc # "idle" /\ client.config.baseUrl = {}) =>
      /\ call[c].url.base = "https://api.usenotifica.com.br/v1"
      /\ call[c].url.slashes = 0

\* C29: when a request() call that was given a cancellation signal settles,
\* none of the abort listeners it registered on the caller's signal remains
\* registered, however many attempts it made.
C29_NoListenerLeftOnceSettled ==
  \A c \in Slots :
    (Settled(call[c]) /\ call[c].options.signal # "none") => call[c].listeners = 0

\* C30: once the caller's signal has fired, the call starts no further HTTP
\* attempt: the next attempt's start rejects with NotificaError 'Request
\* aborted' before fetch is invoked, and a call given an already-aborted
\* signal makes no HTTP attempt at all.
C30_NoAttemptAfterAbort ==
  [][\A c \in Slots :
       LET r == call[c]
           n == call'[c]
       IN /\ (r.pc \in {"backoff", "fetching", "reading"}
                /\ r.options.signal = "aborted") =>
               n.httpAttempts = r.httpAttempts
          /\ (r.pc = "backoff" /\ r.options.signal = "aborted" /\ n.pc # "backoff") =>
               /\ n.pc = "rejected"
               /\ n.thrown = {NotificaError("Request aborted", r.attempt)}
          /\ ((r.pc = "idle" \/ Settled(r)) /\ calls' = calls + 1
                /\ n.options.signal = "aborted") =>
               /\ n.pc = "rejected"
               /\ n.thrown = {NotificaError("Request aborted", 0)}
               /\ n.httpAttempts = 0]_vars

\* The signal fired during a backoff sleep after one attempt, and the call
\* rejected at the start of the next attempt without a second fetch.
C30_Witness ==
  \E c \in Slots :
    /\ call[c].pc = "rejected"
    /\ call[c].options.signal = "aborted"
    /\ call[c].attempt = 1
    /\ call[c].httpAttempts = 1
    /\ call[c].thrown = {NotificaError("Request aborted", 1)}

\* ------------------------------------------------------------------ C31
\* C31: the timeout timer of a request() call is pending only while the fetch
\* of the attempt that armed it is pending: none is pending once the call has
\* settled, and none is pending during the backoff sleep or the body read
\* that come before the next attempt arms its own.
C31_TimerOnlyWhileFetching ==
  \A c \in Slots : call[c].timer => call[c].pc = "fetching"

\* A call that settled after a network failure, a sleep and a second attempt.
C31_Witness ==
  \E c \in Slots :
    /\ Settled(call[c])
    /\ call[c].httpAttempts = 2
    /\ call[c].hist \in {"network", "timeout", "mixed"}
    /\ ~call[c].timer

\* ------------------------------------------------------------------ C32
\* C32: within one request() call attempts (loop iterations) and backoff
\* sleeps strictly alternate.  The first attempt starts without a sleep; a
\* sleep begins only when an attempt has ended and is the single sleep before
\* the next attempt; what follows a sleep is the attempt it precedes, never a
\* second sleep; the call settles out of an attempt (its fetch, its body read
\* or its signal test), so that the sleeps begun always number the attempts
\* begun less one.
C32_AttemptsAndSleepsAlternate ==
  [][\A c \in Slots :
       LET r == call[c]
           n == call'[c]
       IN /\ ((r.pc = "idle" \/ Settled(r)) /\ calls' = calls + 1) =>
               /\ n.attempt = 0
               /\ n.sleeps = 0
               /\ n.pc # "backoff"
          /\ (r.pc # "backoff" /\ n.pc = "backoff") =>
               /\ r.pc \in {"fetching", "reading"}
               /\ n.attempt = r.attempt + 1
               /\ n.sleeps = r.sleeps + 1
          /\ r.pc = "backoff" =>
               /\ n.pc \in {"backoff", "fetching", "rejected"}
               /\ n.attempt = r.attempt
               /\ n.sleeps = r.sleeps
               /\ n.sleep \in {r.sleep, {}}
          /\ n.sleeps = n.attempt
          /\ Settled(n) => n.sleep = {}]_vars

\* A call that resolved on its third attempt, after two sleeps.
C32_Witness ==
  \E c \in Slots :
    /\ call[c].pc = "resolved"
    /\ call[c].httpAttempts = 3
    /\ call[c].attempt = 2
    /\ call[c].sleeps = 2

\* ------------------------------------------------------------------ C33
\* C33: at every moment a request() call has at most one fetch() in flight:
\* an attempt is issued only when every earlier fetch() of the call has
\* settled (resolved with a response, aborted, or failed).
C33_AtMostOneInFlight ==
  \A c \in Slots :
    /\ call[c].inFlight \in {0, 1}
    /\ call[c].inFlight = 1 <=> call[c].pc = "fetching"

\* The second attempt of a call is in flight, the first one having timed out.
C33_Witness ==
  \E c \in Slots :
    /\ call[c].pc = "fetching"
    /\ call[c].httpAttempts = 2
    /\ call[c].inFlight = 1
    /\ call[c].lastError # {}
    /\ Val(call[c].lastError).name = "TimeoutError"

\* ------------------------------------------------------------------ C34
\* C34: for every non-negative integer maxRetries, request() leaves the
\* attempt loop by a return or a throw from inside it: the throw of line 245
\* after the loop is never reached.
C34_FallThroughUnreachable ==
  \A c \in Slots :
    /\ ~call[c].fellThrough
    /\ call[c].pc # "idle" => call[c].attempt <= client.maxRetries

\* A call that used all its attempts and was rejected from inside the loop.
C34_Witness ==
  \E c \in Slots :
    /\ call[c].pc = "rejected"
    /\ call[c].attempt = client.maxRetries
    /\ call[c].httpAttempts = client.maxRetries + 1
    /\ ~call[c].fellThrough

\* ------------------------------------------------------------------ C35
\* C35: a backoff sleep, once begun, runs for its full delay.  When the
\* caller's signal fires during the sleep the call goes on sleeping with the
\* same pending delay; the sleep ends only as its timer fires, and the
\* attempt that starts then rejects with NotificaError 'Request aborted'
\* without calling fetch.
C35_AbortDoesNotShortenSleep ==
  [][\A c \in Slots :
       LET r == call[c]
           n == call'[c]
       IN /\ (r.pc = "backoff" /\ r.options.signal = "live"
                /\ n.options.signal = "aborted") =>
               /\ n.pc = "backoff"
               /\ n.sleep = r.sleep
               /\ n.sleep # {}
               /\ n.attempt = r.attempt
          /\ (r.pc = "backoff" /\ r.options.signal = "aborted" /\ n # r) =>
               /\ r.sleep # {}
               /\ n = Throw(r, NotificaError("Request aborted", r.attempt))]_vars

\* The signal has fired during a sleep, which is still pending.
C35_Witness ==
  \E c \in Slots :
    /\ call[c].pc = "backoff"
    /\ call[c].options.signal = "aborted"
    /\ call[c].sleep # {}
    /\ call[c].abortCause = "none"

\* ------------------------------------------------------------------ C36
\* C36: the delay before a retry is chosen from the failure of the attempt
\* just before it.  Every retried failure overwrites the recorded last error:
\* when an attempt made after a 429 with a Retry-After hint fails in another
\* way (5xx, timeout, network error), the hint is gone and the next sleep is
\* drawn from the exponential window of the attempt; and the error a sleep is
\* computed from is always that of the attempt before.
C36_DelayFromLastFailureOnly ==
  [][\A c \in Slots :
       LET r == call[c]
           n == call'[c]
       IN (r.pc \in {"fetching", "reading"} /\ n.pc = "backoff") =>
            /\ n.lastError # {}
            /\ Val(n.lastError).at = r.attempt
            /\ \E k \in Draws : n.sleep = {backoff(n.attempt, n.lastError, k)}
            /\ (Hinted(r.lastError) /\ Val(n.lastError).name # "RateLimitError") =>
                 \E d \in n.sleep : InWindow(d, n.attempt)]_vars

\* A sleep that follows a timeout or a network failure of a later attempt.
C36_Witness ==
  \E c \in Slots :
    /\ call[c].pc = "backoff"
    /\ call[c].attempt = 2
    /\ call[c].hist = "mixed"
    /\ Val(call[c].lastError).name \in {"TimeoutError", "TypeError"}
    /\ \E d \in call[c].sleep : InWindow(d, 2)

\* ------------------------------------------------------------------ C37
\* C37: a 2xx response other than 204 whose body fails to parse as JSON is
\* handled as a transport failure.  While attempts remain the parse error is
\* recorded and the same request (method, URL, headers) goes to the next
\* attempt after a backoff sleep; on the last attempt the call rejects with
\* NotificaError 'Request failed: <message of the parse error>'.
C37_UnparsedSuccessIsTransportFailure ==
  [][\A c \in Slots :
       LET r == call[c]
           n == call'[c]
       IN (r.pc = "reading" /\ Ok(r.response.status) /\ r.response.body = {}
             /\ n # r /\ n.options.signal = r.options.signal) =>
            /\ r.response.status # 204
            /\ n.pc # "resolved"
            /\ IF r.attempt < client.maxRetries
               THEN /\ n.pc = "backoff"
                    /\ n.attempt = r.attempt + 1
                    /\ n.lastError # {}
                    /\ Val(n.lastError).name = "SyntaxError"
                    /\ n.method = r.method
                    /\ n.url = r.url
                    /\ n.headers = r.headers
               ELSE /\ n.pc = "rejected"
                    /\ n.thrown =
                         {NotificaError("Request failed: Unexpected end of JSON input",
                                        r.attempt)}]_vars

\* A call every attempt of which was answered 2xx, rejected on its last one.
C37_Witness ==
  \E c \in Slots :
    /\ call[c].pc = "rejected"
    /\ call[c].hist = "ok"
    /\ call[c].httpAttempts = client.maxRetries + 1
    /\ client.maxRetries >= 1
    /\ Val(call[c].thrown).message = "Request failed: Unexpected end of JSON input"

\* ------------------------------------------------------------------ C38
\* C38: when the list call for a page rejects, the rejection leaves the
\* generator through the next() that was pending; by then the consumer has
\* been handed every item of every page received before, one per earlier
\* next(); and the generator, now finished, issues no list call and hands
\* out no item on any later next().
C38_FailureEndsTraversal ==
  [][/\ (pager.pc = "awaiting" /\ pager' # pager /\ pager'.pages = pager.pages) =>
          /\ pager'.pc = "failed"
          /\ pager'.pulls = pager.pulls
          /\ pager'.pulls = Len(pager'.yielded) + 1
          /\ pager'.yielded = ConcatData(pager'.pages)
          /\ pager'.fetches = pager.fetches
          /\ Len(pager'.fetches) = Len(pager'.pages) + 1
     /\ pager.pc = "failed" =>
          /\ pager'.pc = "failed"
          /\ pager'.fetches = pager.fetches
          /\ pager'.pages = pager.pages
          /\ pager'.yielded = pager.yielded]_vars

\* The list call for the second page failed after both items of the first
\* page were handed out, and the consumer called next() once more.
C38_Witness ==
  /\ pager.pc = "failed"
  /\ Len(pager.pages) = 1
  /\ Len(pager.fetches) = 2
  /\ Len(pager.yielded) = 2
  /\ pager.late = 1

\* ------------------------------------------------------------------ C39
\* The generator is finished: it ran to its end, was returned, or threw.
Finished(p) == p.pc \in {"done", "returned", "failed"}

\* C39: a paginate() traversal drained by its consumer terminates once some
\* page has reported has_more = false, and nothing else in the iterator
\* bounds it: a page that reports has_more = true with a non-empty cursor,
\* be it a cursor seen before, never ends the generator, which goes on to
\* the list call for that cursor once the items of the page are handed out.
C39_EndsOnHasMoreFalseOnly ==
  /\ [][/\ (pager'.pc = "done" /\ pager.pc # "done") =>
             Terminal(pager'.pages[Len(pager'.pages)])
        /\ (pager.pc \in {"awaiting", "yielded"}
              /\ pager.pages # <<>> /\ pager'.pages = pager.pages
              /\ pager.idx = Len(Val(pager.response).data)
              /\ ~Terminal(pager.pages[Len(pager.pages)])) =>
             \/ /\ pager'.pc \in {"awaiting", "failed"}
                /\ Len(pager'.fetches) = Len(pager'.pages) + 1
                /\ pager'.fetches[Len(pager'.fetches)].cursor =
                     pager.pages[Len(pager.pages)].meta.cursor
             \/ pager'.pc = "returned"]_vars
  /\ ((\E i \in 1..Len(pager.pages) : ~pager.pages[i].meta.has_more)
        ~> Finished(pager))

\* A drained traversal of three pages, the first two of which carried the
\* same cursor with has_more = true, ended by the has_more = false of the
\* third.
C39_Witness ==
  /\ pager.pc = "done"
  /\ Len(pager.pages) = 3
  /\ pager.pages[1].meta = [cursor |-> {"same"}, has_more |-> TRUE]
  /\ pager.pages[2].meta = [cursor |-> {"same"}, has_more |-> TRUE]
  /\ ~pager.pages[3].meta.has_more
  /\ pager.yielded = ConcatData(pager.pages)

\* ------------------------------------------------------------------ C40
\* C40: every request() call eventually settles (resolves or rejects),
\* given only that timers fire, whatever the server does.
C40_EveryCallSettles ==
  \A c \in Slots : (call[c].pc # "idle") ~> Settled(call[c])
====
